---------------------------- MODULE Spec2Model ----------------------------
(***************************************************************************)
(* A model of the SAME (Specific Area Message Encoding) encoder and        *)
(* decoder of jcheshire/same-endec:                                        *)
(*                                                                         *)
(*   backend/encoder.py         SAMEEncoder.encode, build_same_message     *)
(*   backend/python_decoder.py  PythonSAMEDecoder (level 1 demodulator,    *)
(*                              level 2 message machine, streaming)        *)
(*   backend/decoder.py         SAMEDecoder.parse_same_message             *)
(*                                                                         *)
(* Text is modelled as sequences of character codes (the code points of a  *)
(* Python str); a byte is a number in 0..255.                              *)
(***************************************************************************)
EXTENDS Integers, Sequences, FiniteSets, TLC

VARIABLES
    \* --- one decoder, fed either the bytes of a transmission (level 2
    \*     alone) or the audio of a recording, chunk after chunk
    descriptor,   \* the descriptor whose transmission is being received
    pos,          \* how many bytes, or samples, have been fed
    chunk_size,   \* the size of the chunks the audio is fed in (0: no audio)
    state,        \* PythonSAMEDecoder.state (the dict of reset_state)
    returned,     \* the messages the decoder has returned so far, in order
    noise,        \* the bytes the decoder was handed before the transmission
    twin,         \* a second decoder instance, created when the first was reset
    \* --- the encoder
    encCall,      \* the arguments of the last call of SAMEEncoder.encode
    encResult,    \* what that call did: raised, or the waveform it made
    files,        \* the output paths that hold a written WAV file
    \* --- the descriptor builder
    bldCall,      \* the arguments of the last call of build_same_message
    bldResult,    \* what that call returned or raised
    \* --- the descriptor parser
    parseCall,    \* the argument of the last call of parse_same_message
    parseResult,  \* the dict that call returned
    \* --- the WAV entry points of the two decoder classes
    decCall,      \* the last call of decode, decode_file or decode_bytes
    decResult,    \* what that call did, and what it returned or raised
    \* --- the demodulator, one pass of its loop at a time
    loc,          \* the locals of the call of demodulate_fsk_with_decode
    windows,      \* where the windows correlated so far start in the stream
    \* --- one process serving requests, a thread for each decode
    threads,      \* where each thread is in its call of decode_bytes
    process,      \* what the threads share: the umask and the temp files
    requests      \* where each request is in the handler decode_message

vars == <<descriptor, pos, chunk_size, state, returned, noise, twin,
          encCall, encResult, files, bldCall, bldResult,
          parseCall, parseResult, decCall, decResult, loc, windows,
          threads, process, requests>>

l2vars  == <<descriptor, pos, chunk_size, state, returned, noise, twin>>
encvars == <<encCall, encResult, files>>
bldvars == <<bldCall, bldResult>>
prsvars == <<parseCall, parseResult>>
decvars == <<decCall, decResult>>
demvars == <<loc, windows>>
apivars == <<threads, process, requests>>

-----------------------------------------------------------------------------
(***************************************************************************)
(* Characters.  Printable[i] is the character with code 31 + i (the double  *)
(* quote, the backslash and the backtick are spelled out).                 *)
(***************************************************************************)
Printable ==
    <<" ", "!", "dquote", "#", "$", "%", "&", "'", "(", ")", "*", "+", ",", "-",
      ".", "/", "0", "1", "2", "3", "4", "5", "6", "7", "8", "9", ":", ";",
      "<", "=", ">", "?", "@", "A", "B", "C", "D", "E", "F", "G", "H", "I",
      "J", "K", "L", "M", "N", "O", "P", "Q", "R", "S", "T", "U", "V", "W",
      "X", "Y", "Z", "[", "bslash", "]", "^", "_", "btick", "a", "b", "c", "d", "e",
      "f", "g", "h", "i", "j", "k", "l", "m", "n", "o", "p", "q", "r", "s",
      "t", "u", "v", "w", "x", "y", "z", "{", "|", "}", "~">>

Ord(c) == 31 + (CHOOSE i \in 1..Len(Printable) : Printable[i] = c)

\* The str whose characters are the one-character strings of cs.
Str(cs) == [i \in 1..Len(cs) |-> Ord(cs[i])]

DASH == Ord("-")
PLUS == Ord("+")


\* Python's None, which is no str: no character has a negative code.
None == <<-1>>

Min(a, b) == IF a < b THEN a ELSE b

\* The sequences of ss end to end.
RECURSIVE Concat(_)
Concat(ss) ==
    IF Len(ss) = 0 THEN <<>>
    ELSE IF Len(ss) = 1 THEN ss[1]
    ELSE LET h == Len(ss) \div 2
         IN  Concat(SubSeq(ss, 1, h)) \o Concat(SubSeq(ss, h + 1, Len(ss)))

\* sep.join(ss)
Join(sep, ss) ==
    Concat([k \in 1..(2 * Len(ss) - 1) |->
               IF k % 2 = 1 THEN ss[(k + 1) \div 2] ELSE sep])

\* needle in hay
Contains(hay, needle) ==
    \E i \in 0..(Len(hay) - Len(needle)) :
        \A j \in 1..Len(needle) : hay[i + j] = needle[j]

\* s.startswith(p)
StartsWith(s, p) ==
    /\ Len(s) >= Len(p)
    /\ \A j \in 1..Len(p) : s[j] = p[j]

\* s.split(sep) for a one-character separator: one part more than there
\* are separators in s, each the stretch between two of them.
Split(s, sep) ==
    LET at       == {i \in 1..Len(s) : s[i] = sep}
        n        == Cardinality(at)
        Cut(k)   == IF k = 0 THEN 0
                    ELSE IF k = n + 1 THEN Len(s) + 1
                    ELSE CHOOSE i \in at : Cardinality({j \in at : j <= i}) = k
    IN  [k \in 1..(n + 1) |-> SubSeq(s, Cut(k - 1) + 1, Cut(k) - 1)]

\* s.strip(chars): the longest stretch of s that neither starts nor ends with
\* a character of chars.
Strip(s, chars) ==
    LET keep == {i \in 1..Len(s) : s[i] \notin chars}
    IN  IF keep = {} THEN <<>>
        ELSE LET lo == CHOOSE i \in keep : \A j \in keep : i <= j
                 hi == CHOOSE i \in keep : \A j \in keep : i >= j
             IN  SubSeq(s, lo, hi)

\* The characters str.strip() removes (str.isspace), among codes below 256.
Whitespace == {9, 10, 11, 12, 13, 28, 29, 30, 31, 32, 133, 160}

-----------------------------------------------------------------------------
(***************************************************************************)
(* encoder.py: SAMEEncoder.  The waveform is modelled as the sequence of   *)
(* its segments: one tone per bit ("mark", "space"), the np.zeros(20000)   *)
(* that opens it ("lead") and the np.zeros(sample_rate) that follows every *)
(* burst ("second").                                                       *)
(***************************************************************************)
mark_bit  == "mark"
space_bit == "space"

\* byte_value >> i & 1, for i in range(8)
BitOf(byte_value, i) == (byte_value \div (2 ^ i)) % 2

encode_byte_msb(byte_value) ==
    [k \in 1..8 |-> IF BitOf(byte_value, 8 - k) = 1 THEN mark_bit ELSE space_bit]

encode_byte(byte_value) ==
    [k \in 1..8 |-> IF BitOf(byte_value, k - 1) = 1 THEN mark_bit ELSE space_bit]

PreambleTones ==
    <<mark_bit, mark_bit, space_bit, mark_bit,
      space_bit, mark_bit, space_bit, mark_bit>>

generate_preamble == Concat([k \in 1..16 |-> PreambleTones])

NNNN == Str(<<"N", "N", "N", "N">>)
ZCZC == Str(<<"Z", "C", "Z", "C">>)

\* One pass of either for-loop of encode: preamble, characters, silence.
Burst(text) ==
    generate_preamble
        \o Concat([k \in 1..Len(text) |-> encode_byte(text[k])])
        \o <<"second">>

\* Lines 100-120: the signal encode builds once its arguments are accepted.
EncodeSignal(same_message) ==
    <<"lead">>
        \o Concat([k \in 1..3 |-> Burst(same_message)])
        \o Concat([k \in 1..3 |-> Burst(NNNN)])

-----------------------------------------------------------------------------
(***************************************************************************)
(* python_decoder.py: PythonSAMEDecoder, level 2 (the message machine).    *)
(***************************************************************************)
PREAMBLE_BYTE == 171   \* 0xAB

\* reset_state: the dict a new or reset decoder holds.  The audio buffer is
\* the stretch of the stream it holds: where it starts and how many samples.
ResetState ==
    [ phase          |-> 0,
      integrator     |-> 0,
      dcd_shreg      |-> [hi |-> 0, lo |-> 0],
      lasts          |-> 0,
      sync_locked    |-> FALSE,
      byte_counter   |-> 0,
      l2_state       |-> "IDLE",
      header_buffer  |-> <<>>,
      message_buffer |-> <<>>,
      decoded_bytes  |-> <<>>,
      messages       |-> <<>>,
      audio_buffer   |-> [start |-> 0, len |-> 0] ]

\* A reset that leaves the level-2 machine and the audio tail as they are.
reset_keeps_message(st) ==
    [ResetState EXCEPT !.l2_state = st.l2_state,
                       !.header_buffer = st.header_buffer,
                       !.message_buffer = st.message_buffer,
                       !.audio_buffer = st.audio_buffer]

\* Lines 83-103: reset_state() on a decoder whose state is st assigns a new
\* dict, whatever st holds.
reset_state(st) == ResetState

\* The dict _process_decoded_byte returns for a message.
Message(text, eom) ==
    [ demod_name     |-> "EAS",
      header_begin   |-> "ZCZC",
      last_message   |-> text,
      end_of_message |-> eom ]

\* What _process_decoded_byte returns when it returns None.
NoMessage == [demod_name |-> "None"]

\* The test of lines 383-385 without the length of the last field.
HeaderCompleteAnyLength(parts) ==
    /\ Len(parts) >= 6
    /\ parts[Len(parts)] = <<>>

\* Line 383-385: the buffer reads as a complete header.
HeaderComplete(parts) ==
    /\ Len(parts) >= 6
    /\ parts[Len(parts)] = <<>>
    /\ Len(parts[Len(parts) - 1]) <= 8

\* READING_MESSAGE without the length check of lines 410-420.
ReadingMessageUncapped(st, char) ==
    LET buf   == Append(st.message_buffer, char)
        parts == Split(buf, DASH)
    IN  IF HeaderComplete(parts)
        THEN [st  |-> [st EXCEPT !.message_buffer = <<>>],
              msg |-> Message(buf, FALSE)]
        ELSE IF Contains(buf, NNNN)
        THEN [st  |-> [st EXCEPT !.l2_state = "IDLE",
                                 !.header_buffer = <<>>,
                                 !.message_buffer = <<>>],
              msg |-> NoMessage]
        ELSE [st  |-> [st EXCEPT !.message_buffer = buf],
              msg |-> NoMessage]

\* READING_MESSAGE keeping the header window when NNNN shows in the buffer,
\* where line 404 empties it.
ReadingMessageKeepsWindow(st, char) ==
    LET buf   == Append(st.message_buffer, char)
        parts == Split(buf, DASH)
    IN  IF HeaderComplete(parts)
        THEN [st  |-> [st EXCEPT !.message_buffer = <<>>],
              msg |-> Message(buf, FALSE)]
        ELSE IF Contains(buf, NNNN)
        THEN [st  |-> [st EXCEPT !.l2_state = "IDLE",
                                 !.message_buffer = <<>>],
              msg |-> NoMessage]
        ELSE IF Len(buf) > 300
        THEN [st  |-> [st EXCEPT !.l2_state = "IDLE",
                                 !.message_buffer = <<>>],
              msg |-> Message(buf, FALSE)]
        ELSE [st  |-> [st EXCEPT !.message_buffer = buf],
              msg |-> NoMessage]

\* READING_MESSAGE leaving the buffer as it is on an overrun, where line 417
\* empties it.
ReadingMessageKeepsBuffer(st, char) ==
    LET buf   == Append(st.message_buffer, char)
        parts == Split(buf, DASH)
    IN  IF HeaderComplete(parts)
        THEN [st  |-> [st EXCEPT !.message_buffer = <<>>],
              msg |-> Message(buf, FALSE)]
        ELSE IF Contains(buf, NNNN)
        THEN [st  |-> [st EXCEPT !.l2_state = "IDLE",
                                 !.header_buffer = <<>>,
                                 !.message_buffer = <<>>],
              msg |-> NoMessage]
        ELSE IF Len(buf) > 300
        THEN [st  |-> [st EXCEPT !.l2_state = "IDLE",
                                 !.message_buffer = buf],
              msg |-> Message(buf, FALSE)]
        ELSE [st  |-> [st EXCEPT !.message_buffer = buf],
              msg |-> NoMessage]

\* Lines 364-422: _process_decoded_byte in READING_MESSAGE.
ReadingMessage(st, char) ==
    LET buf   == Append(st.message_buffer, char)
        parts == Split(buf, DASH)
    IN  IF HeaderComplete(parts)
        THEN [st  |-> [st EXCEPT !.message_buffer = <<>>],
              msg |-> Message(buf, FALSE)]
        ELSE IF Contains(buf, NNNN)
        THEN [st  |-> [st EXCEPT !.l2_state = "IDLE",
                                 !.header_buffer = <<>>,
                                 !.message_buffer = <<>>],
              msg |-> NoMessage]
        ELSE IF Len(buf) > 300
        THEN [st  |-> [st EXCEPT !.l2_state = "IDLE",
                                 !.message_buffer = <<>>],
              msg |-> Message(buf, FALSE)]
        ELSE [st  |-> [st EXCEPT !.message_buffer = buf],
              msg |-> NoMessage]

\* HEADER_SEARCH emptying the window, where line 359 slides it by one.
HeaderSearchNoSlide(st, char) ==
    LET hb     == Append(st.header_buffer, char)
        header == SubSeq(hb, 1, Min(4, Len(hb)))
    IN  IF Len(hb) < 4
        THEN [st |-> [st EXCEPT !.header_buffer = hb], msg |-> NoMessage]
        ELSE IF header = ZCZC
        THEN [st  |-> [st EXCEPT !.header_buffer = hb,
                                 !.l2_state = "READING_MESSAGE",
                                 !.message_buffer = <<>>],
              msg |-> NoMessage]
        ELSE IF header = NNNN
        THEN IF st.message_buffer # <<>>
             THEN [st  |-> [st EXCEPT !.l2_state = "IDLE",
                                      !.header_buffer = <<>>,
                                      !.message_buffer = <<>>],
                   msg |-> Message(st.message_buffer, TRUE)]
             ELSE [st  |-> [st EXCEPT !.l2_state = "IDLE",
                                      !.header_buffer = <<>>],
                   msg |-> NoMessage]
        ELSE [st  |-> [st EXCEPT !.header_buffer = <<>>],
              msg |-> NoMessage]

\* Lines 321-362: _process_decoded_byte in HEADER_SEARCH.
HeaderSearch(st, char) ==
    LET hb     == Append(st.header_buffer, char)
        header == SubSeq(hb, 1, Min(4, Len(hb)))
    IN  IF Len(hb) < 4
        THEN [st |-> [st EXCEPT !.header_buffer = hb], msg |-> NoMessage]
        ELSE IF header = ZCZC
        THEN [st  |-> [st EXCEPT !.header_buffer = hb,
                                 !.l2_state = "READING_MESSAGE",
                                 !.message_buffer = <<>>],
              msg |-> NoMessage]
        ELSE IF header = NNNN
        THEN IF st.message_buffer # <<>>
             THEN [st  |-> [st EXCEPT !.l2_state = "IDLE",
                                      !.header_buffer = <<>>,
                                      !.message_buffer = <<>>],
                   msg |-> Message(st.message_buffer, TRUE)]
             ELSE [st  |-> [st EXCEPT !.l2_state = "IDLE",
                                      !.header_buffer = <<>>],
                   msg |-> NoMessage]
        ELSE [st  |-> [st EXCEPT !.header_buffer = Tail(hb)],
              msg |-> NoMessage]

\* _process_decoded_byte leaving IDLE with an empty window, where line 318
\* puts the byte into it.
process_decoded_byte_drops_first(st, byte_val) ==
    IF st.l2_state = "IDLE"
    THEN [st  |-> [st EXCEPT !.l2_state = "HEADER_SEARCH",
                             !.header_buffer = <<>>],
          msg |-> NoMessage]
    ELSE IF st.l2_state = "HEADER_SEARCH" THEN HeaderSearch(st, byte_val)
    ELSE IF st.l2_state = "READING_MESSAGE" THEN ReadingMessage(st, byte_val)
    ELSE [st |-> st, msg |-> NoMessage]

\* Lines 294-424: _process_decoded_byte(byte_val), as the pair of the state it
\* leaves and the value it returns.  char = chr(byte_val) is byte_val itself.
process_decoded_byte(st, byte_val) ==
    IF st.l2_state = "IDLE"
    THEN [st  |-> [st EXCEPT !.l2_state = "HEADER_SEARCH",
                             !.header_buffer = <<byte_val>>],
          msg |-> NoMessage]
    ELSE IF st.l2_state = "HEADER_SEARCH" THEN HeaderSearch(st, byte_val)
    ELSE IF st.l2_state = "READING_MESSAGE" THEN ReadingMessage(st, byte_val)
    ELSE [st |-> st, msg |-> NoMessage]

\* Lines 609-618: the body of process_audio_chunk's loop over the new bytes,
\* on the pair [st, out] of the state and the messages completed so far.
FeedByte(acc, byte_val) ==
    IF byte_val = PREAMBLE_BYTE THEN acc
    ELSE LET r == process_decoded_byte(acc.st, byte_val)
         IN  [st  |-> r.st,
              out |-> IF r.msg # NoMessage THEN Append(acc.out, r.msg)
                      ELSE acc.out]

-----------------------------------------------------------------------------
(***************************************************************************)
(* decoder.py: SAMEDecoder.parse_same_message.                             *)
(***************************************************************************)
\* Lines 250-255: the index (from 0) of the first part from parts[2] on that
\* starts with "+", or -1 for Python's None.
DurationIdx(parts) ==
    LET hits == {i \in 2..(Len(parts) - 1) : StartsWith(parts[i + 1], <<PLUS>>)}
    IN  IF hits = {} THEN -1 ELSE CHOOSE i \in hits : \A j \in hits : i <= j

EmptyParse ==
    [ org |-> None, event |-> None, locations |-> <<>>,
      duration |-> None, timestamp |-> None, originator |-> None ]

\* parse_same_message without the strip('-') of line 233.
parse_keeps_dashes(message_string) ==
    LET parts == Split(Strip(message_string, Whitespace), DASH)
        idx   == DurationIdx(parts)
    IN  IF Len(parts) < 3 THEN EmptyParse
        ELSE IF idx = -1
        THEN [EmptyParse EXCEPT !.org = parts[1], !.event = parts[2]]
        ELSE [ org        |-> parts[1],
               event      |-> parts[2],
               locations  |-> SubSeq(parts, 3, idx),
               duration   |-> parts[idx + 1],
               timestamp  |-> IF idx + 1 < Len(parts) THEN parts[idx + 2]
                              ELSE None,
               originator |-> IF idx + 2 < Len(parts) THEN parts[idx + 3]
                              ELSE None ]

\* parse_same_message asking for four parts where line 244 asks for three.
parse_from_four_parts(message_string) ==
    LET parts == Split(Strip(Strip(message_string, Whitespace), {DASH}), DASH)
        idx   == DurationIdx(parts)
    IN  IF Len(parts) < 4 THEN EmptyParse
        ELSE IF idx = -1
        THEN [EmptyParse EXCEPT !.org = parts[1], !.event = parts[2]]
        ELSE [ org        |-> parts[1],
               event      |-> parts[2],
               locations  |-> SubSeq(parts, 3, idx),
               duration   |-> parts[idx + 1],
               timestamp  |-> IF idx + 1 < Len(parts) THEN parts[idx + 2]
                              ELSE None,
               originator |-> IF idx + 2 < Len(parts) THEN parts[idx + 3]
                              ELSE None ]

\* Lines 233-268.  parts[k] of the code is parts[k + 1] here.
parse_same_message(message_string) ==
    LET parts == Split(Strip(Strip(message_string, Whitespace), {DASH}), DASH)
        idx   == DurationIdx(parts)
    IN  IF Len(parts) < 3 THEN EmptyParse
        ELSE IF idx = -1
        THEN [EmptyParse EXCEPT !.org = parts[1], !.event = parts[2]]
        ELSE [ org        |-> parts[1],
               event      |-> parts[2],
               locations  |-> SubSeq(parts, 3, idx),
               duration   |-> parts[idx + 1],
               timestamp  |-> IF idx + 1 < Len(parts) THEN parts[idx + 2]
                              ELSE None,
               originator |-> IF idx + 2 < Len(parts) THEN parts[idx + 3]
                              ELSE None ]

-----------------------------------------------------------------------------
(***************************************************************************)
(* encoder.py: build_same_message.                                         *)
(***************************************************************************)
\* The character classes of the patterns.  In a str pattern \d matches every
\* Unicode decimal digit; the Arabic-Indic digits stand for the non-ASCII ones.
AsciiUpper == Ord("A")..Ord("Z")
AsciiDigit == Ord("0")..Ord("9")
ReUpper == AsciiUpper
ReDigit == AsciiDigit \cup (1632..1641)
ReStation == AsciiUpper \cup AsciiDigit \cup {Ord("/"), DASH, Ord(" ")}

\* re.match("^...$", s): "$" matches at the end of s and also just before a
\* line feed that ends s.
AllChars(x, class) == \A k \in 1..Len(x) : x[k] \in class

DropLF(s) == IF Len(s) >= 1 /\ s[Len(s)] = 10 THEN SubSeq(s, 1, Len(s) - 1) ELSE s

\* ^[A-Z]{3}$
MatchEvent(s) ==
    \E x \in {s, DropLF(s)} : Len(x) = 3 /\ AllChars(x, ReUpper)
\* ^\d{6}$
MatchLocation(s) ==
    \E x \in {s, DropLF(s)} : Len(x) = 6 /\ AllChars(x, ReDigit)
\* ^\+\d{4}$
MatchDuration(s) ==
    \E x \in {s, DropLF(s)} :
        Len(x) = 5 /\ x[1] = PLUS /\ AllChars(Tail(x), ReDigit)
\* ^\d{7}$
MatchTimestamp(s) ==
    \E x \in {s, DropLF(s)} : Len(x) = 7 /\ AllChars(x, ReDigit)
\* ^[A-Z0-9/\- ]{1,8}$
MatchOriginator(s) ==
    \E x \in {s, DropLF(s)} :
        Len(x) >= 1 /\ Len(x) <= 8 /\ AllChars(x, ReStation)

\* The decimal digits of n, zero-padded to width characters (%j, %H, %M).
RECURSIVE ZeroPad(_, _)
ZeroPad(n, width) ==
    IF width = 0 THEN <<>>
    ELSE Append(ZeroPad(n \div 10, width - 1), Ord("0") + (n % 10))

\* datetime.datetime.now().strftime("%j%H%M") at day j of the year, h:m.
StrfTime(now) == ZeroPad(now.j, 3) \o ZeroPad(now.h, 2) \o ZeroPad(now.m, 2)

PEP_EVENTS == { Str(<<"E","A","N">>), Str(<<"E","A","T">>), Str(<<"N","I","C">>),
                Str(<<"N","P","T">>), Str(<<"R","M","T">>), Str(<<"R","W","T">>) }
WXR_EVENTS == { Str(<<"T","O","R">>), Str(<<"S","V","R">>), Str(<<"F","F","W">>),
                Str(<<"E","V","I">>) }

\* A variant of OrgFor that files the weekly and monthly tests under WXR.
OrgForTestsAsWeather(event_code) ==
    IF event_code \in PEP_EVENTS \ {Str(<<"R","M","T">>), Str(<<"R","W","T">>)}
    THEN Str(<<"P","E","P">>)
    ELSE IF event_code \in WXR_EVENTS
                \cup {Str(<<"R","M","T">>), Str(<<"R","W","T">>)}
    THEN Str(<<"W","X","R">>)
    ELSE Str(<<"C","I","V">>)

\* Lines 187-193.
OrgFor(event_code) ==
    IF event_code \in PEP_EVENTS THEN Str(<<"P","E","P">>)
    ELSE IF event_code \in WXR_EVENTS THEN Str(<<"W","X","R">>)
    ELSE Str(<<"C","I","V">>)

\* Lines 164-198: build_same_message, called at the time now.  The result is
\* the str returned, or the ValueError raised.
build_same_message(event_code, location_codes, duration, timestamp, originator, now) ==
    LET Raise == [status |-> "ValueError", value |-> <<>>]
        ts    == IF timestamp = None THEN StrfTime(now) ELSE timestamp
    IN  IF ~MatchEvent(event_code) THEN Raise
        ELSE IF location_codes = <<>> \/ Len(location_codes) > 31 THEN Raise
        ELSE IF \E k \in 1..Len(location_codes) :
                    ~MatchLocation(location_codes[k]) THEN Raise
        ELSE IF ~MatchDuration(duration) THEN Raise
        ELSE IF timestamp # None /\ ~MatchTimestamp(timestamp) THEN Raise
        ELSE IF ~MatchOriginator(originator) THEN Raise
        ELSE [status |-> "ok",
              value  |-> ZCZC \o <<DASH>> \o OrgFor(event_code) \o <<DASH>>
                           \o event_code \o <<DASH>>
                           \o Join(<<DASH>>, location_codes) \o duration
                           \o <<DASH>> \o ts \o <<DASH>>
                           \o originator \o <<DASH>>]

-----------------------------------------------------------------------------
(***************************************************************************)
(* encoder.py: SAMEEncoder.encode(same_message, output_path=None).         *)
(*                                                                         *)
(* A call is [msg, path, kw]: the descriptor, the output path and the      *)
(* keyword arguments passed besides.  A path is known by what encode asks  *)
(* of it: whether it is given (neither None nor ""), whether its absolute  *)
(* form starts with the working directory, and whether it starts with      *)
(* /etc, /sys or /proc.                                                    *)
(***************************************************************************)
MAX_MESSAGE_LEN == 268

NoPath == [given |-> FALSE, in_cwd |-> FALSE, system |-> FALSE]

\* Line 86, in a variant that lets one more character through.
TooLongOffByOne(same_message) == Len(same_message) > MAX_MESSAGE_LEN + 1

\* Line 86.
TooLong(same_message) == Len(same_message) > MAX_MESSAGE_LEN

\* Lines 94-95 and 97-98: the two refusals of an output path.
OutsideCwd(output_path) == output_path.given /\ ~output_path.in_cwd
InSystemDir(output_path) == output_path.given /\ output_path.system

Raised(error) == [status |-> error, signal |-> <<>>, returns |-> "nothing"]

\* Lines 71-134.  The signature takes same_message and output_path only, so
\* a call that passes any other keyword raises TypeError before the body runs.
encode(same_message, output_path, kw) ==
    IF kw # "none" THEN Raised("TypeError")
    ELSE IF TooLong(same_message)
    THEN Raised("ValueError: Message too long")
    ELSE IF OutsideCwd(output_path)
    THEN Raised("ValueError: Output path must be within current working directory")
    ELSE IF InSystemDir(output_path)
    THEN Raised("ValueError: Cannot write to system directories")
    ELSE [status  |-> "ok",
          signal  |-> EncodeSignal(same_message),
          returns |-> IF output_path.given THEN "path" ELSE "bytes"]

-----------------------------------------------------------------------------
(***************************************************************************)
(* Level 1 on an error-free channel (python_decoder.py lines 205-242):     *)
(* every tone is clocked out as one bit, eight bits make a byte in the     *)
(* shift register lasts, the 0xAB bytes of the preamble are discarded and  *)
(* the silence between bursts delivers nothing.                            *)
(***************************************************************************)
\* Lines 206-211: lasts >>= 1; lasts |= 0x80 when the bit is a one.
ShiftIn(lasts, tone) == (lasts \div 2) + (IF tone = mark_bit THEN 128 ELSE 0)

AssembleByte(tones) ==
    ShiftIn(ShiftIn(ShiftIn(ShiftIn(ShiftIn(ShiftIn(ShiftIn(ShiftIn(0,
        tones[1]), tones[2]), tones[3]), tones[4]), tones[5]), tones[6]),
        tones[7]), tones[8])

IsTone(segment) == segment \in {mark_bit, space_bit}

CleanBytes(signal) ==
    LET tones == SelectSeq(signal, IsTone)
        bytes == [k \in 1..(Len(tones) \div 8) |->
                     AssembleByte(SubSeq(tones, 8 * k - 7, 8 * k))]
        NotPreamble(b) == b # PREAMBLE_BYTE
    IN  SelectSeq(bytes, NotPreamble)

-----------------------------------------------------------------------------
(***************************************************************************)
(* Inputs.                                                                 *)
(***************************************************************************)
MaxLocs == 3      \* location codes in a generated descriptor
ExtraLen == 2     \* how far past MAX_MESSAGE_LEN the encoder is tried

LocCode(k) == ZeroPad(24031 + 2 * (k - 1), 6)
LocList(n) == [k \in 1..n |-> LocCode(k)]

WXR == Str(<<"W","X","R">>)
PEP == Str(<<"P","E","P">>)
CIV == Str(<<"C","I","V">>)
EAS == Str(<<"E","A","S">>)
Originators == {WXR, PEP, CIV, EAS}

TOR == Str(<<"T","O","R">>)
RWT == Str(<<"R","W","T">>)
CEM == Str(<<"C","E","M">>)

PHILLYWX == Str(<<"P","H","I","L","L","Y","W","X">>)
Stations ==
    { PHILLYWX,
      Str(<<"N","W","S","/","K","M","M","S">>),
      Str(<<"W","X","-","1"," ","A">>),
      Str(<<"K">>) }

Duration0030 == Str(<<"+","0","0","3","0">>)
Stamp3171500 == Str(<<"3","1","7","1","5","0","0">>)

\* ZCZC-ORG-EEE-PSSCCC{-PSSCCC}*+HHMM-JJJHHMM-LLLLLLLL-
Descriptor(org, eee, locs, duration, timestamp, station) ==
    ZCZC \o <<DASH>> \o org \o <<DASH>> \o eee \o <<DASH>>
         \o Join(<<DASH>>, locs) \o duration \o <<DASH>>
         \o timestamp \o <<DASH>> \o station \o <<DASH>>

Descriptors ==
    { Descriptor(h[1], h[2], LocList(n), Duration0030, Stamp3171500, st) :
        h \in {<<WXR, TOR>>, <<PEP, RWT>>, <<CIV, CEM>>},
        n \in 1..MaxLocs,
        st \in Stations }

TornadoWarning ==
    Descriptor(WXR, TOR, LocList(1), Duration0030, Stamp3171500, PHILLYWX)

\* What the decoder is handed when the transmission of d arrives error-free.
StreamOf == [d \in Descriptors |-> CleanBytes(EncodeSignal(d))]

\* The descriptor without its leading "ZCZC-".
Body(d) == SubSeq(d, 6, Len(d))

-----------------------------------------------------------------------------
(***************************************************************************)
(* The states before any call.                                             *)
(***************************************************************************)
NoEncCall   == [msg |-> <<>>, path |-> NoPath, kw |-> "no call"]
NoEncResult == [status |-> "no call", signal |-> <<>>, returns |-> "nothing"]
NoBldCall   == [event_code |-> <<>>, location_codes |-> <<>>, duration |-> <<>>,
                timestamp |-> None, originator |-> <<>>,
                now |-> [j |-> 1, h |-> 0, m |-> 0]]
NoBldResult == [status |-> "no call", value |-> <<>>]

\* No second decoder: from is the sample at which it was created.
NoTwin == [st |-> ResetState, out |-> <<>>, pos |-> 0, from |-> -1]

NoParseCall   == None
NoParseResult == [status |-> "no call"]
NoDecCall     == [class |-> "none", method |-> "none"]
NoDecResult   == [status |-> "no call"]
NoProcess     == [umask |-> 0, before |-> 0, files |-> {}]
NoLoc         == [call |-> "none"]

EncIdle == encCall = NoEncCall /\ encResult = NoEncResult /\ files = {}
BldIdle == bldCall = NoBldCall /\ bldResult = NoBldResult
PrsIdle == parseCall = NoParseCall /\ parseResult = NoParseResult
DecIdle == decCall = NoDecCall /\ decResult = NoDecResult
DemIdle == loc = NoLoc /\ windows = <<>>
ApiIdle == threads = <<>> /\ process = NoProcess /\ requests = <<>>
L2Idle  == /\ descriptor = TornadoWarning
           /\ pos = 0
           /\ chunk_size = 0
           /\ state = ResetState
           /\ returned = <<>>
           /\ noise = <<>>
           /\ twin = NoTwin

-----------------------------------------------------------------------------
(***************************************************************************)
(* The level-2 machine receiving the bytes of one transmission.            *)
(***************************************************************************)
InitL2 ==
    /\ descriptor \in Descriptors
    /\ pos = 0
    /\ chunk_size = 0
    /\ state = ResetState
    /\ returned = <<>>
    /\ noise = <<>>
    /\ twin = NoTwin
    /\ EncIdle
    /\ BldIdle
    /\ PrsIdle
    /\ DecIdle /\ ApiIdle /\ DemIdle

\* The next byte of the transmission goes through _process_decoded_byte.
ReceiveByte ==
    /\ pos < Len(StreamOf[descriptor])
    /\ LET r == FeedByte([st |-> state, out |-> returned],
                         StreamOf[descriptor][pos + 1])
       IN  /\ state' = r.st
           /\ returned' = r.out
    /\ pos' = pos + 1
    /\ UNCHANGED <<apivars, demvars, descriptor, chunk_size, noise, twin, encvars, bldvars, prsvars, decvars>>

\* reset_state(), and the transmission of another descriptor begins.
NewStream ==
    /\ pos = Len(StreamOf[descriptor])
    /\ \E d \in Descriptors : descriptor' = d
    /\ pos' = 0
    /\ state' = ResetState
    /\ returned' = <<>>
    /\ UNCHANGED <<apivars, demvars, chunk_size, noise, twin, encvars, bldvars, prsvars, decvars>>

NextL2 == ReceiveByte \/ NewStream

SpecL2 == InitL2 /\ [][NextL2]_vars

Received == pos = Len(StreamOf[descriptor])

-----------------------------------------------------------------------------
SomeMessageHoldsBody ==
    Received =>
        \E i \in 1..Len(returned) :
            Contains(returned[i].last_message, Body(descriptor))

\* C3: once an error-free transmission with its three NNNN bursts has been
\* fed, the decoder is back in IDLE and at least one returned record has
\* end_of_message = TRUE.
SomeRecordMarksEndOfMessage ==
    Received =>
        /\ state.l2_state = "IDLE"
        /\ \E i \in 1..Len(returned) : returned[i].end_of_message

\* C5: the records emitted for the header repetitions of one transmission
\* carry the same last_message.
RepetitionsIdentical ==
    \A i, j \in 1..Len(returned) :
        returned[i].last_message = returned[j].last_message

\* C6: every emitted record parses to ORG in {WXR, PEP, CIV, EAS}, EEE of
\* three uppercase letters, 1 to 31 locations, a +dddd duration and a
\* 7-digit timestamp, each of them or null where the parser found nothing.
FieldsWellFormed(p) ==
    /\ p.org = None \/ p.org \in Originators
    /\ p.event = None \/ (Len(p.event) = 3 /\ AllChars(p.event, AsciiUpper))
    /\ p.locations = <<>> \/ Len(p.locations) \in 1..31
    /\ p.duration = None
         \/ ( /\ Len(p.duration) = 5
              /\ p.duration[1] = PLUS
              /\ AllChars(Tail(p.duration), AsciiDigit) )
    /\ p.timestamp = None
         \/ (Len(p.timestamp) = 7 /\ AllChars(p.timestamp, AsciiDigit))

EmittedHeadersWellFormed ==
    \A i \in 1..Len(returned) :
        FieldsWellFormed(parse_same_message(returned[i].last_message))

-----------------------------------------------------------------------------
(***************************************************************************)
(* Calls of SAMEEncoder.encode.                                            *)
(***************************************************************************)
Padded(n) ==
    TornadoWarning \o [k \in 1..(n - Len(TornadoWarning)) |-> Ord("X")]

EncMessages ==
    { <<>> }
      \cup { Descriptor(h[1], h[2], LocList(n), Duration0030, Stamp3171500,
                        PHILLYWX) :
                h \in {<<WXR, TOR>>, <<PEP, RWT>>}, n \in 1..MaxLocs }
      \cup { Padded(n) : n \in (MAX_MESSAGE_LEN - 1)..(MAX_MESSAGE_LEN + ExtraLen) }

OutPaths == {NoPath} \cup [given : {TRUE}, in_cwd : BOOLEAN, system : BOOLEAN]

\* How the callers of the repository call it: encoder.py line 214 with the
\* two parameters only, test_decoder.py line 75 and api.py line 174 with
\* include_eom besides.
Keywords == {"none", "include_eom=True", "include_eom=False"}

InitEnc == EncIdle /\ L2Idle /\ BldIdle /\ PrsIdle /\ DecIdle /\ ApiIdle /\ DemIdle

\* One call of encode; wavfile.write (line 127) puts the file at the path.
Encode ==
    \E m \in EncMessages, p \in OutPaths, kw \in Keywords :
        LET r == encode(m, p, kw)
        IN  /\ encCall' = [msg |-> m, path |-> p, kw |-> kw]
            /\ encResult' = r
            /\ files' = IF r.status = "ok" /\ p.given
                        THEN files \cup {p} ELSE files
            /\ UNCHANGED <<apivars, demvars, l2vars, bldvars, prsvars, decvars>>

NextEnc == Encode

SpecEnc == InitEnc /\ [][NextEnc]_vars

AcceptablePath(output_path) ==
    ~output_path.given \/ (output_path.in_cwd /\ ~output_path.system)

\* The tones of the three NNNN bursts close the signal.
EomTail == Concat([k \in 1..3 |-> Burst(NNNN)])
EndsWithEom(signal) ==
    /\ Len(signal) >= Len(EomTail)
    /\ SubSeq(signal, Len(signal) - Len(EomTail) + 1, Len(signal)) = EomTail

Silences(signal) == Cardinality({k \in 1..Len(signal) : signal[k] = "second"})

\* C7: a call that passes include_eom succeeds, and its signal ends with the
\* three NNNN bursts exactly when include_eom is true; with include_eom
\* false it holds the three header bursts only.
IncludeEomDecidesEom ==
    ( /\ encCall.kw \in {"include_eom=True", "include_eom=False"}
      /\ Len(encCall.msg) <= MAX_MESSAGE_LEN
      /\ AcceptablePath(encCall.path) )
    => /\ encResult.status = "ok"
       /\ EndsWithEom(encResult.signal) <=> encCall.kw = "include_eom=True"
       /\ encCall.kw = "include_eom=False" => Silences(encResult.signal) = 3

\* The byte read from the eight segments of the signal after position at,
\* the first of them weighing 1 and the last 128; -1 if one is not a tone.
ByteAt(signal, at) ==
    IF \E i \in 1..8 : ~IsTone(signal[at + i]) THEN -1
    ELSE LET W(i) == IF signal[at + i] = mark_bit THEN 2 ^ (i - 1) ELSE 0
         IN  W(1) + W(2) + W(3) + W(4) + W(5) + W(6) + W(7) + W(8)

\* C8: an encoded signal opens with the leading silence and three identical
\* bursts, each of them 16 bytes 0xAB and the characters of the descriptor
\* in order, least-significant bit first with MARK for 1 and SPACE for 0,
\* and one second of silence after each burst.
BurstsAreLsbFirstFrames ==
    encResult.status = "ok" =>
        LET m      == encCall.msg
            sig    == encResult.signal
            frame  == [k \in 1..16 |-> 171] \o m
            period == 8 * Len(frame) + 1
        IN  /\ Len(sig) >= 1 + 3 * period
            /\ sig[1] = "lead"
            /\ \A r \in 0..2 :
                   /\ \A k \in 1..Len(frame) :
                          ByteAt(sig, 1 + r * period + 8 * (k - 1)) = frame[k]
                   /\ sig[1 + (r + 1) * period] = "second"

EncodedTornadoWarning ==
    /\ encResult.status = "ok"
    /\ encCall.msg = TornadoWarning
    /\ Len(encResult.signal) > 3 * 8 * (16 + Len(TornadoWarning))

\* C9: a descriptor of more than 268 characters is refused with an error,
\* one of at most 268 characters is accepted, and a refused call, whether
\* for the length or for the output path, leaves no signal and no new file.
EncodeChecksLength ==
    [][ /\ Len(encCall'.msg) > 268 => encResult'.status # "ok"
        /\ ( /\ Len(encCall'.msg) <= 268
              /\ encCall'.kw = "none"
              /\ AcceptablePath(encCall'.path) )
           => encResult'.status = "ok"
        /\ encResult'.status # "ok"
           => (encResult'.signal = <<>> /\ files' = files) ]_vars

RefusedForLength ==
    /\ Len(encCall.msg) = 269
    /\ encCall.kw = "none"
    /\ AcceptablePath(encCall.path) /\ encCall.path.given
    /\ encResult.status = "ValueError: Message too long"
    /\ encCall.path \notin files

-----------------------------------------------------------------------------
(***************************************************************************)
(* Calls of build_same_message.                                            *)
(***************************************************************************)
EAN == Str(<<"E","A","N">>)
LowerTor == Str(<<"t","o","r">>)
TorLF == TOR \o <<10>>

BldEvents == {TOR, RWT, EAN, CEM, LowerTor, TorLF}
BldLocationLists ==
    { <<>>, <<Str(<<"2","4","0","3">>)>>, LocList(32) }
        \cup { LocList(n) : n \in 1..MaxLocs }
BldDurations == {Duration0030, Str(<<"0","0","3","0">>), Str(<<"+","0","0","9","9">>)}
BldTimestamps ==
    {None, Stamp3171500, Str(<<"3","1","7">>), Str(<<"4","0","0","2","5","9","9">>)}
BldOriginators == {PHILLYWX, <<>>}
\* What the clock may read when the call is made.
BldClock == { [j |-> 1, h |-> 0, m |-> 0], [j |-> 366, h |-> 23, m |-> 59] }

InitBuild == BldIdle /\ L2Idle /\ EncIdle /\ PrsIdle /\ DecIdle /\ ApiIdle /\ DemIdle

\* One call of build_same_message.
Build ==
    \E e \in BldEvents, l \in BldLocationLists, d \in BldDurations,
       t \in BldTimestamps, o \in BldOriginators, now \in BldClock :
        /\ bldCall' = [event_code |-> e, location_codes |-> l, duration |-> d,
                       timestamp |-> t, originator |-> o, now |-> now]
        /\ bldResult' = build_same_message(e, l, d, t, o, now)
        /\ UNCHANGED <<apivars, demvars, l2vars, encvars, prsvars, decvars>>

NextBuild == Build

SpecBuild == InitBuild /\ [][NextBuild]_vars

\* C10: a call that passes validation returns "ZCZC-" ORG "-" event "-" the
\* location codes joined by "-", then the duration, "-", the timestamp, "-",
\* the station and "-", with ORG being PEP for EAN, EAT, NIC, NPT, RMT and
\* RWT, WXR for TOR, SVR, FFW and EVI, and CIV for every other event.  The
\* timestamp is the one passed or, if none was, the clock's JJJHHMM.
BuildReturnsDescriptor ==
    bldResult.status = "ok" =>
        LET c     == bldCall
            tests == { Str(<<"E","A","N">>), Str(<<"E","A","T">>),
                       Str(<<"N","I","C">>), Str(<<"N","P","T">>),
                       Str(<<"R","M","T">>), Str(<<"R","W","T">>) }
            storm == { Str(<<"T","O","R">>), Str(<<"S","V","R">>),
                       Str(<<"F","F","W">>), Str(<<"E","V","I">>) }
            org   == IF c.event_code \in tests THEN PEP
                     ELSE IF c.event_code \in storm THEN WXR
                     ELSE CIV
            stamp == IF c.timestamp = None
                     THEN ZeroPad(c.now.j, 3) \o ZeroPad(c.now.h, 2)
                              \o ZeroPad(c.now.m, 2)
                     ELSE c.timestamp
            dash  == Str(<<"-">>)
            codes == [k \in 1..(Len(Concat(c.location_codes))
                                  + Len(c.location_codes) - 1) |->
                        IF k % 7 = 0 THEN DASH
                        ELSE c.location_codes[(k \div 7) + 1][k % 7]]
        IN  bldResult.value
              = Str(<<"Z","C","Z","C","-">>) \o org \o dash \o c.event_code
                  \o dash \o codes \o c.duration \o dash \o stamp \o dash
                  \o c.originator \o dash

BuiltWeeklyTest ==
    /\ bldResult.status = "ok"
    /\ bldCall.event_code = RWT
    /\ Len(bldCall.location_codes) >= 2
    /\ bldCall.timestamp = None
    /\ SubSeq(bldResult.value, 1, 13)
          = Str(<<"Z","C","Z","C","-","P","E","P","-","R","W","T","-">>)

\* The number the ASCII digits of s spell.
RECURSIVE DecimalValue(_)
DecimalValue(s) ==
    IF s = <<>> THEN 0
    ELSE 10 * DecimalValue(SubSeq(s, 1, Len(s) - 1)) + (s[Len(s)] - Ord("0"))

DigitsWithin(s, lo, hi) ==
    AllChars(s, AsciiDigit) /\ DecimalValue(s) >= lo /\ DecimalValue(s) <= hi

\* The grammar of a descriptor with n location codes: ZCZC-ORG-EEE-, the
\* codes (the last of them ends at character at), +HHMM-, JJJHHMM-, and a
\* station identifier of sl characters with its dash.
SatisfiesGrammar(s) ==
    \E n \in 1..31 :
        LET sl == Len(s) - 27 - 7 * n
            at == 7 * n + 12
        IN  /\ sl >= 1 /\ sl <= 8
            /\ Len(s) <= 268
            /\ SubSeq(s, 1, 5) = ZCZC \o <<DASH>>
            /\ SubSeq(s, 6, 8) \in Originators /\ s[9] = DASH
            /\ AllChars(SubSeq(s, 10, 12), AsciiUpper) /\ s[13] = DASH
            /\ \A k \in 1..n :
                   /\ AllChars(SubSeq(s, 7 * k + 7, 7 * k + 12), AsciiDigit)
                   /\ k < n => s[7 * k + 13] = DASH
            /\ s[at + 1] = PLUS
            /\ DigitsWithin(SubSeq(s, at + 2, at + 3), 0, 99)
            /\ DigitsWithin(SubSeq(s, at + 4, at + 5), 0, 59)
            /\ s[at + 6] = DASH
            /\ DigitsWithin(SubSeq(s, at + 7, at + 9), 1, 366)
            /\ DigitsWithin(SubSeq(s, at + 10, at + 11), 0, 23)
            /\ DigitsWithin(SubSeq(s, at + 12, at + 13), 0, 59)
            /\ s[at + 14] = DASH
            /\ AllChars(SubSeq(s, at + 15, at + 14 + sl),
                        AsciiUpper \cup AsciiDigit \cup {Ord("/"), DASH, Ord(" ")})
            /\ s[Len(s)] = DASH

\* C11: every call of build either raises or returns a descriptor of the
\* grammar: 1 to 31 location codes of 6 digits, purge minutes 00-59, Julian
\* day 001-366, hour 00-23, minute 00-59, a station of 1 to 8 characters of
\* [A-Z0-9/- ], no other character, at most 268 characters in all.
BuildValidatesGrammar ==
    /\ bldResult.status \in {"no call", "ok", "ValueError"}
    /\ bldResult.status = "ok" => SatisfiesGrammar(bldResult.value)

-----------------------------------------------------------------------------
(***************************************************************************)
(* Calls of SAMEDecoder.parse_same_message.                                *)
(***************************************************************************)
MaxParseLen == 5     \* the longest of the short strings handed to the parser

ParseAlphabet == {DASH, PLUS, Ord("A")}

\* Every string over the alphabet of at most MaxParseLen characters.
ShortStrings ==
    UNION { [1..n -> ParseAlphabet] : n \in 0..MaxParseLen }

ABC == Str(<<"A","-","B","-","C">>)

\* Strings with white space around them, or line ends as a decoder returns
\* them (CR and LF are legal SAME characters).
SpacedStrings ==
    { <<32>> \o ABC, ABC \o <<32>>, <<32, DASH>> \o ABC, ABC \o <<DASH, 10>>,
      <<13, 10>> \o Body(TornadoWarning), <<DASH, 32, DASH>> \o ABC,
      <<32>>, <<32, DASH, 32>> }

GrammarBodies == { Body(d) : d \in Descriptors }

ParseInputs ==
    ShortStrings \cup SpacedStrings \cup GrammarBodies \cup {TornadoWarning}

InitParse == PrsIdle /\ L2Idle /\ EncIdle /\ BldIdle /\ DecIdle /\ ApiIdle /\ DemIdle

\* One call of parse_same_message: it has no raise and calls nothing that
\* raises on a str, so it returns its dict.
Parse ==
    \E m \in ParseInputs :
        /\ parseCall' = m
        /\ parseResult' = [status |-> "returned", value |-> parse_same_message(m)]
        /\ UNCHANGED <<apivars, demvars, l2vars, encvars, bldvars, decvars>>

NextParse == Parse

SpecParse == InitParse /\ [][NextParse]_vars

\* C12: for a body ORG-EEE-codes+HHMM-JJJHHMM-station- the record holds all
\* the location codes, the duration "+HHMM", the timestamp, the field after
\* it as the station identifier, and partial = FALSE.
ParsesGrammarBodies ==
    \A h \in {<<WXR, TOR>>, <<PEP, RWT>>, <<CIV, CEM>>},
       n \in 1..MaxLocs, st \in Stations :
        parseCall = Body(Descriptor(h[1], h[2], LocList(n), Duration0030,
                                    Stamp3171500, st))
        => /\ parseResult.status = "returned"
           /\ parseResult.value.org = h[1]
           /\ parseResult.value.event = h[2]
           /\ parseResult.value.locations = LocList(n)
           /\ parseResult.value.duration = Duration0030
           /\ parseResult.value.timestamp = Stamp3171500
           /\ parseResult.value.originator = Split(st, DASH)[1]
           /\ "partial" \in DOMAIN parseResult.value
           /\ parseResult.value.partial = FALSE

\* The six fields, each null or a str, the locations a list of str.
NullableFields(p) ==
    /\ DOMAIN p = {"org", "event", "locations", "duration", "timestamp",
                   "originator"}
    /\ \A f \in {"org", "event", "duration", "timestamp", "originator"} :
           p[f] = None \/ \A k \in 1..Len(p[f]) : p[f][k] >= 0
    /\ \A k \in 1..Len(p.locations) : p.locations[k] # None

\* C13 (as stated): every call returns a record; ORG and EEE are the first
\* two fields of the input stripped of its leading and trailing dashes and
\* split on dashes, whenever there are three fields or more, and null
\* otherwise; every other field is a str or null.
ParseTotalOnDashStripped ==
    parseCall # NoParseCall =>
        LET fields == Split(Strip(parseCall, {DASH}), DASH)
            p      == parseResult.value
        IN  /\ parseResult.status = "returned"
            /\ NullableFields(p)
            /\ IF Len(fields) >= 3
               THEN p.org = fields[1] /\ p.event = fields[2]
               ELSE p = EmptyParse

\* C13 (amended): the same, the fields being those of the input stripped of
\* the white space around it and then of its leading and trailing dashes.
ParseTotalOnStripped ==
    parseCall # NoParseCall =>
        LET fields == Split(Strip(Strip(parseCall, Whitespace), {DASH}), DASH)
            p      == parseResult.value
        IN  /\ parseResult.status = "returned"
            /\ NullableFields(p)
            /\ IF Len(fields) >= 3
               THEN p.org = fields[1] /\ p.event = fields[2]
               ELSE p = EmptyParse

ParsedThreeFields ==
    /\ parseCall = <<32, DASH>> \o ABC
    /\ parseResult.status = "returned"
    /\ parseResult.value.org = Str(<<"A">>)
    /\ parseResult.value.event = Str(<<"B">>)
    /\ parseResult.value.duration = None

-----------------------------------------------------------------------------
(***************************************************************************)
(* python_decoder.py: level 1, demodulate_fsk_with_decode, and the         *)
(* streaming entry process_audio_chunk.                                    *)
(*                                                                         *)
(* The audio is known by the sign of the decision metric f of each         *)
(* correlation window (lines 154-165): the window that starts at sample g  *)
(* of the stream gives Metric(d, g), the same value in whichever call it   *)
(* is correlated, since the samples of a window do not depend on the       *)
(* chunking.  The audio buffer the decoder carries is the stretch of the   *)
(* stream it holds: [start, len].                                          *)
(***************************************************************************)
SUBSAMP == 2
INTEGRATOR_MAX == 10
DLL_MAX_INC == 8192
phase_increment == 3095        \* int(0x10000 * 520.83 * 2 / 22050)
correlation_length == 42       \* int(22050 / 520.83)
MAX_DECODED == 300

\* Lines 264-292 without the test of lines 286-290, any byte below 0x80
\* being taken.
is_valid_below_80(byte_val) == byte_val < 128

\* Lines 264-292.
is_valid_same_char(byte_val) ==
    IF byte_val >= 128 THEN FALSE
    ELSE IF byte_val = 13 \/ byte_val = 10 THEN TRUE
    ELSE byte_val >= 32 /\ byte_val <= 126

\* Lines 170-172: dcd_shreg = (dcd_shreg << 1) & 0xFFFFFFFF, then |= 1 when
\* f > 0; the 32 bits are kept as two halves of 16.
ShiftDcd(dcd_shreg, f) ==
    [ hi |-> (2 * dcd_shreg.hi + (dcd_shreg.lo \div 32768)) % 65536,
      lo |-> ((2 * dcd_shreg.lo) % 65536) + (IF f > 0 THEN 1 ELSE 0) ]

\* Line 185: (dcd_shreg ^ (dcd_shreg >> 1)) & 1
Transition(dcd_shreg) ==
    (dcd_shreg.lo % 2) # ((dcd_shreg.lo \div 2) % 2)

\* Lines 187-196 with the adjustment always DLL_MAX_INC, whatever the
\* phase.
DllAdjustNoMin(phase) ==
    IF phase < 32768 - (phase_increment \div 8)
    THEN IF phase > (phase_increment \div 2)
         THEN phase - DLL_MAX_INC
         ELSE phase
    ELSE IF phase < 65536 - (phase_increment \div 2)
         THEN phase + DLL_MAX_INC
         ELSE phase

\* Lines 187-196: the phase after the delay-locked loop has seen a
\* transition; both gains are 0.5 and int() cuts the half off.
DllAdjust(phase) ==
    IF phase < 32768 - (phase_increment \div 8)
    THEN IF phase > (phase_increment \div 2)
         THEN phase - Min(phase \div 2, DLL_MAX_INC)
         ELSE phase
    ELSE IF phase < 65536 - (phase_increment \div 2)
         THEN phase + Min((65536 - phase) \div 2, DLL_MAX_INC)
         ELSE phase

\* Lines 139-151: the locals of the loop, loaded from the state.
LoadLocals(st) ==
    [ phase         |-> st.phase,
      integrator    |-> st.integrator,
      dcd_shreg     |-> st.dcd_shreg,
      lasts         |-> st.lasts,
      sync_locked   |-> st.sync_locked,
      byte_counter  |-> st.byte_counter,
      decoded_bytes |-> st.decoded_bytes,
      i             |-> 0,
      broke         |-> FALSE ]

\* Line 249 left out: the sample index stays where it is.
AdvanceStalls(l) == l

\* Line 249.
Advance(l) == [l EXCEPT !.i = @ + SUBSAMP]

\* Lines 202-249 with the register shifted left and the new bit set at its
\* low end.
BitPeriodShiftLeft(l) ==
    LET lasts == ((l.lasts * 2) % 256) + (IF l.integrator >= 0 THEN 1 ELSE 0)
        m     == [l EXCEPT !.lasts = lasts]
    IN  IF lasts = PREAMBLE_BYTE /\ ~l.sync_locked
        THEN Advance([m EXCEPT !.sync_locked = TRUE, !.byte_counter = 0])
        ELSE IF ~l.sync_locked THEN Advance(m)
        ELSE IF l.byte_counter + 1 # 8
        THEN Advance([m EXCEPT !.byte_counter = @ + 1])
        ELSE IF lasts = PREAMBLE_BYTE
        THEN [m EXCEPT !.byte_counter = 0]
        ELSE LET n == IF is_valid_same_char(lasts)
                      THEN [m EXCEPT !.decoded_bytes = Append(@, lasts),
                                     !.byte_counter = 0]
                      ELSE [m EXCEPT !.sync_locked = FALSE,
                                     !.byte_counter = 0]
             IN  IF Len(n.decoded_bytes) > MAX_DECODED
                 THEN [n EXCEPT !.broke = TRUE]
                 ELSE Advance(n)

\* Lines 202-249 with the test of line 215 made on the register alone: sync
\* is declared anew wherever the register reads 0xAB.
BitPeriodResync(l) ==
    LET lasts == (l.lasts \div 2) + (IF l.integrator >= 0 THEN 128 ELSE 0)
        m     == [l EXCEPT !.lasts = lasts]
    IN  IF lasts = PREAMBLE_BYTE
        THEN Advance([m EXCEPT !.sync_locked = TRUE, !.byte_counter = 0])
        ELSE IF ~l.sync_locked THEN Advance(m)
        ELSE IF l.byte_counter + 1 # 8
        THEN Advance([m EXCEPT !.byte_counter = @ + 1])
        ELSE LET n == IF is_valid_same_char(lasts)
                      THEN [m EXCEPT !.decoded_bytes = Append(@, lasts),
                                     !.byte_counter = 0]
                      ELSE [m EXCEPT !.sync_locked = FALSE,
                                     !.byte_counter = 0]
             IN  IF Len(n.decoded_bytes) > MAX_DECODED
                 THEN [n EXCEPT !.broke = TRUE]
                 ELSE Advance(n)

\* Lines 202-249 without the discard of lines 227-231: a preamble byte on a
\* byte boundary goes to the validity check like any other.
BitPeriodKeepsPreamble(l) ==
    LET lasts == (l.lasts \div 2) + (IF l.integrator >= 0 THEN 128 ELSE 0)
        m     == [l EXCEPT !.lasts = lasts]
    IN  IF lasts = PREAMBLE_BYTE /\ ~l.sync_locked
        THEN Advance([m EXCEPT !.sync_locked = TRUE, !.byte_counter = 0])
        ELSE IF ~l.sync_locked THEN Advance(m)
        ELSE IF l.byte_counter + 1 # 8
        THEN Advance([m EXCEPT !.byte_counter = @ + 1])
        ELSE LET n == IF is_valid_same_char(lasts)
                      THEN [m EXCEPT !.decoded_bytes = Append(@, lasts),
                                     !.byte_counter = 0]
                      ELSE [m EXCEPT !.sync_locked = FALSE,
                                     !.byte_counter = 0]
             IN  IF Len(n.decoded_bytes) > MAX_DECODED
                 THEN [n EXCEPT !.broke = TRUE]
                 ELSE Advance(n)

\* Lines 202-249: a bit period has completed (phase is already back at 1).
\* The continue of line 231 leaves i where it is; the break of line 246
\* ends the loop.
BitPeriod(l) ==
    LET lasts == (l.lasts \div 2) + (IF l.integrator >= 0 THEN 128 ELSE 0)
        m     == [l EXCEPT !.lasts = lasts]
    IN  IF lasts = PREAMBLE_BYTE /\ ~l.sync_locked
        THEN Advance([m EXCEPT !.sync_locked = TRUE, !.byte_counter = 0])
        ELSE IF ~l.sync_locked THEN Advance(m)
        ELSE IF l.byte_counter + 1 # 8
        THEN Advance([m EXCEPT !.byte_counter = @ + 1])
        ELSE IF lasts = PREAMBLE_BYTE
        THEN [m EXCEPT !.byte_counter = 0]
        ELSE LET n == IF is_valid_same_char(lasts)
                      THEN [m EXCEPT !.decoded_bytes = Append(@, lasts),
                                     !.byte_counter = 0]
                      ELSE [m EXCEPT !.sync_locked = FALSE,
                                     !.byte_counter = 0]
             IN  IF Len(n.decoded_bytes) > MAX_DECODED
                 THEN [n EXCEPT !.broke = TRUE]
                 ELSE Advance(n)

\* Lines 154-249 with the phase keeping what it has beyond 0x10000 when a
\* bit period completes.
IterationKeepsOvershoot(l, f) ==
    LET dcd   == ShiftDcd(l.dcd_shreg, f)
        integ == IF f > 0 /\ l.integrator < INTEGRATOR_MAX
                 THEN l.integrator + 1
                 ELSE IF f < 0 /\ l.integrator > -INTEGRATOR_MAX
                 THEN l.integrator - 1
                 ELSE l.integrator
        phase == (IF Transition(dcd) THEN DllAdjust(l.phase) ELSE l.phase)
                     + phase_increment
        m     == [l EXCEPT !.dcd_shreg = dcd, !.integrator = integ]
    IN  IF phase >= 65536
        THEN BitPeriod([m EXCEPT !.phase = phase - 65536])
        ELSE Advance([m EXCEPT !.phase = phase])

\* Lines 154-249: one pass through the body of the loop, on a window whose
\* decision metric has the sign f.
Iteration(l, f) ==
    LET dcd   == ShiftDcd(l.dcd_shreg, f)
        integ == IF f > 0 /\ l.integrator < INTEGRATOR_MAX
                 THEN l.integrator + 1
                 ELSE IF f < 0 /\ l.integrator > -INTEGRATOR_MAX
                 THEN l.integrator - 1
                 ELSE l.integrator
        phase == (IF Transition(dcd) THEN DllAdjust(l.phase) ELSE l.phase)
                     + phase_increment
        m     == [l EXCEPT !.dcd_shreg = dcd, !.integrator = integ]
    IN  IF phase >= 65536
        THEN BitPeriod([m EXCEPT !.phase = 1])
        ELSE Advance([m EXCEPT !.phase = phase])

\* Line 153: the condition of the while, and the break not yet taken.
Looping(l, n) == ~l.broke /\ l.i < n - correlation_length

-----------------------------------------------------------------------------
(***************************************************************************)
(* Recordings: the audio of one header burst, with silence before and      *)
(* after it, at the decoder's sample rate.                                 *)
(***************************************************************************)
LeadSilence == 64      \* samples of silence before the burst
TailSilence == 128     \* samples of silence after it

StationK == Str(<<"K">>)
TornadoK ==
    Descriptor(WXR, TOR, LocList(1), Duration0030, Stamp3171500, StationK)
StreamDescriptors ==
    { Descriptor(h[1], h[2], LocList(1), Duration0030, Stamp3171500, StationK) :
        h \in {<<WXR, TOR>>, <<PEP, RWT>>} }

LongBody == 305       \* characters after the ZCZC of the long burst

\* A burst that is interrupted: after the descriptor comes a byte that is no
\* SAME character (0x01), then a preamble and the descriptor again.
Interrupted ==
    TornadoK \o <<1>> \o [k \in 1..16 |-> PREAMBLE_BYTE] \o TornadoK

\* A burst whose ZCZC is followed by more characters than the message
\* buffer is meant to hold, none of them a dash.
LongBurst == ZCZC \o [k \in 1..LongBody |-> Ord("X")]

\* What the recordings fed to the streaming decoder carry in their burst.
Recordings == StreamDescriptors \cup {Interrupted, LongBurst}

\* A burst in which the last seven bits of the character W and the first
\* bit of the character A read 0xAB.
Misaligned == ZCZC \o Str(<<"-", "W", "A", "-">>)

\* The tones of one burst of the encoder, one per bit.
BurstTones ==
    [d \in Recordings \cup {Misaligned} |-> SelectSeq(Burst(d), IsTone)]

\* A bit lasts as many samples as a correlation window is long.
RecordingLen(d) ==
    LeadSilence + correlation_length * Len(BurstTones[d]) + TailSilence

\* The sign of f for the window that starts at sample g: that of the tone
\* the middle of the window lies in, 0 in silence.
Metric(d, g) ==
    LET mid == g + (correlation_length \div 2) - LeadSilence
        bit == mid \div correlation_length
    IN  IF mid < 0 \/ bit >= Len(BurstTones[d]) THEN 0
        ELSE IF BurstTones[d][bit + 1] = mark_bit THEN 1 ELSE -1

\* Lines 153-249: the loop over the n samples that start at sample start of
\* the stream, for at most fuel passes, a quarter of them at a time.
RECURSIVE Run(_, _, _, _, _)
Run(l, d, start, n, fuel) ==
    IF ~Looping(l, n) THEN l
    ELSE IF fuel <= 1 THEN Iteration(l, Metric(d, start + l.i))
    ELSE LET q == (fuel + 3) \div 4
             a == Run(l, d, start, n, q)
         IN  IF ~Looping(a, n) THEN a
             ELSE LET b == Run(a, d, start, n, q)
                  IN  IF ~Looping(b, n) THEN b
                      ELSE LET c == Run(b, d, start, n, q)
                           IN  IF ~Looping(c, n) THEN c
                               ELSE Run(c, d, start, n, q)

\* Lines 609-618: the new bytes go through level 2, in order.
RECURSIVE FeedAll(_, _)
FeedAll(acc, bytes) ==
    IF Len(bytes) = 0 THEN acc
    ELSE IF Len(bytes) = 1 THEN FeedByte(acc, bytes[1])
    ELSE LET h == Len(bytes) \div 2
             a == FeedAll(acc, SubSeq(bytes, 1, h))
         IN  IF a.st.l2_state = "" THEN a
             ELSE FeedAll(a, SubSeq(bytes, h + 1, Len(bytes)))

\* Lines 569-620: process_audio_chunk on the size samples of recording d
\* that follow the fed ones already received; the state it leaves and the
\* list it returns.  A pass of the loop either advances i or is followed by
\* one that does, so n passes are enough for n samples.
process_audio_chunk(st, d, fed, size) ==
    LET held  == st.audio_buffer.len > 0
        start == IF held THEN st.audio_buffer.start ELSE fed
        n     == IF held THEN st.audio_buffer.len + size ELSE size
        l     == Run(LoadLocals(st), d, start, n, n)
        tail  == IF n >= correlation_length
                 THEN [start |-> start + n - correlation_length,
                       len   |-> correlation_length]
                 ELSE [start |-> start, len |-> n]
        saved == [st EXCEPT !.phase = l.phase,
                            !.integrator = l.integrator,
                            !.dcd_shreg = l.dcd_shreg,
                            !.lasts = l.lasts,
                            !.sync_locked = l.sync_locked,
                            !.byte_counter = l.byte_counter,
                            !.decoded_bytes = <<>>,
                            !.audio_buffer = tail]
    IN  FeedAll([st |-> saved, out |-> <<>>], l.decoded_bytes)

-----------------------------------------------------------------------------
(***************************************************************************)
(* The level-2 machine handed other legal bytes before a transmission.     *)
(***************************************************************************)
MaxNoise == 4      \* bytes handed to the decoder before the transmission

\* Legal characters (lines 264-292): the letters of the two markers and LF.
NoiseBytes == {Ord("Z"), Ord("C"), Ord("N"), 10}

InitNoise ==
    /\ descriptor \in StreamDescriptors
    /\ pos = 0
    /\ chunk_size = 0
    /\ state = ResetState
    /\ returned = <<>>
    /\ noise = <<>>
    /\ twin = NoTwin
    /\ EncIdle
    /\ BldIdle
    /\ PrsIdle
    /\ DecIdle /\ ApiIdle /\ DemIdle

\* A byte that is not of the transmission goes through the loop of
\* process_audio_chunk, before the first byte of the transmission.
ReceiveNoise ==
    /\ pos = 0
    /\ Len(noise) < MaxNoise
    /\ \E b \in NoiseBytes :
         /\ LET r == FeedByte([st |-> state, out |-> returned], b)
            IN  /\ state' = r.st
                /\ returned' = r.out
         /\ noise' = Append(noise, b)
    /\ UNCHANGED <<apivars, demvars, descriptor, pos, chunk_size, twin, encvars, bldvars,
                   prsvars, decvars>>

\* reset_state(), before other bytes and another transmission.
NewNoisyStream ==
    /\ pos = Len(StreamOf[descriptor])
    /\ \E d \in StreamDescriptors : descriptor' = d
    /\ pos' = 0
    /\ state' = ResetState
    /\ returned' = <<>>
    /\ noise' = <<>>
    /\ UNCHANGED <<apivars, demvars, chunk_size, twin, encvars, bldvars, prsvars, decvars>>

NextNoise == ReceiveNoise \/ ReceiveByte \/ NewNoisyStream

SpecNoise == InitNoise /\ [][NextNoise]_vars

\* What a reset decoder has returned after the first n bytes of the
\* error-free transmission of d.
CleanRun ==
    [d \in StreamDescriptors |->
        [n \in 0..Len(StreamOf[d]) |->
            FeedAll([st |-> ResetState, out |-> <<>>],
                    SubSeq(StreamOf[d], 1, n)).out]]

\* Where the first ZCZC of bytes starts.
FirstZCZC(bytes) ==
    CHOOSE i \in 1..Len(bytes) :
        /\ SubSeq(bytes, i, i + 3) = ZCZC
        /\ \A j \in 1..(i - 1) : SubSeq(bytes, j, j + 3) # ZCZC

\* C14: as long as the bytes handed to a reset decoder hold no ZCZC, it has
\* returned nothing; once they do, it has returned what a reset decoder
\* returns for the bytes from the first ZCZC on (CleanRun, when that ZCZC is
\* the one that opens the transmission).
NoSpuriousEmission ==
    LET fed == noise \o SubSeq(StreamOf[descriptor], 1, pos)
    IN  IF ~Contains(fed, ZCZC) THEN returned = <<>>
        ELSE IF FirstZCZC(fed) = Len(noise) + 1
        THEN returned = CleanRun[descriptor][pos]
        ELSE returned
               = FeedAll([st |-> ResetState, out |-> <<>>],
                         SubSeq(fed, FirstZCZC(fed), Len(fed))).out

HeaderAfterNoise ==
    /\ Len(noise) = 3
    /\ noise[3] = Ord("Z")
    /\ pos = Len(StreamOf[descriptor])
    /\ FirstZCZC(noise \o StreamOf[descriptor]) = 4
    /\ Len(returned) = 3
    /\ returned = CleanRun[descriptor][pos]

-----------------------------------------------------------------------------
(***************************************************************************)
(* A recording streamed to a reset decoder in chunks of one size.          *)
(***************************************************************************)
\* A chunk short enough to hold one bit at most.
BitChunk == 16

ChunkSizes == {1, BitChunk, 1024, 4096}

InitStream ==
    /\ descriptor \in Recordings
    /\ chunk_size \in ChunkSizes \cup {RecordingLen(descriptor)}
    /\ pos = 0
    /\ state = ResetState
    /\ returned = <<>>
    /\ noise = <<>>
    /\ twin = NoTwin
    /\ EncIdle
    /\ BldIdle
    /\ PrsIdle
    /\ DecIdle /\ ApiIdle /\ DemIdle

\* The next chunk (the last one may be shorter) goes to process_audio_chunk.
ProcessAudioChunk ==
    /\ pos < RecordingLen(descriptor)
    /\ LET size == Min(chunk_size, RecordingLen(descriptor) - pos)
           r    == process_audio_chunk(state, descriptor, pos, size)
       IN  /\ state' = r.st
           /\ returned' = returned \o r.out
           /\ pos' = pos + size
    /\ UNCHANGED <<apivars, demvars, descriptor, chunk_size, noise, twin, encvars, bldvars, prsvars, decvars>>

\* reset_state(), before another recording in chunks of another size.
ResetStream ==
    /\ pos = RecordingLen(descriptor)
    /\ \E d \in Recordings :
         \E c \in ChunkSizes \cup {RecordingLen(d)} :
            /\ descriptor' = d
            /\ chunk_size' = c
    /\ pos' = 0
    /\ state' = ResetState
    /\ returned' = <<>>
    /\ UNCHANGED <<apivars, demvars, noise, twin, encvars, bldvars, prsvars, decvars>>

NextStream == ProcessAudioChunk \/ ResetStream

SpecStream == InitStream /\ [][NextStream]_vars

\* What reset followed by one process_audio_chunk of the whole recording
\* returns.
SingleCall ==
    [d \in Recordings |->
        process_audio_chunk(ResetState, d, 0, RecordingLen(d)).out]

\* C4: once a recording has been fed whole, in chunks of whatever size, the
\* messages returned are those a single call on the whole recording returns.
ChunkInvariance ==
    pos = RecordingLen(descriptor) => returned = SingleCall[descriptor]

\* C16: when sync is acquired again after a byte has failed validation, the
\* level-2 machine is as reset() leaves it: in IDLE, its message buffer
\* empty.  Sync is lost on such a byte only (line 239), so every
\* acquisition of a stream but the first follows one, and at the first
\* level 2 has not been handed a byte yet; a call on a chunk of BitChunk
\* samples clocks one bit at most, so the state it leaves at an acquisition
\* is the state at the acquisition.
ResyncIsReset ==
    [][ ( /\ chunk_size = BitChunk
          /\ pos' > pos
          /\ ~state.sync_locked
          /\ state'.sync_locked )
        => ( /\ state'.l2_state = ResetState.l2_state
             /\ state'.message_buffer = ResetState.message_buffer ) ]_vars

\* C20: after every call of process_audio_chunk the audio tail holds
\* min(W, samples received) samples, no decoded byte is pending, the
\* header window holds at most 4 bytes and the message buffer at most 300,
\* the list of messages is empty and every register is within its range.
BoundedDecoderState ==
    /\ state.audio_buffer.len = Min(correlation_length, pos)
    /\ state.decoded_bytes = <<>>
    /\ Len(state.header_buffer) <= 4
    /\ Len(state.message_buffer) <= 300
    /\ state.messages = <<>>
    /\ state.phase \in 0..65535
    /\ state.integrator \in -10..10
    /\ state.dcd_shreg.hi \in 0..65535 /\ state.dcd_shreg.lo \in 0..65535
    /\ state.lasts \in 0..255
    /\ state.byte_counter \in 0..7

FullMessageBuffer ==
    /\ descriptor = LongBurst
    /\ chunk_size = BitChunk
    /\ Len(state.message_buffer) = 300
    /\ state.audio_buffer.len = correlation_length

-----------------------------------------------------------------------------
(***************************************************************************)
(* A decoder reset in the middle of a recording, and a second decoder      *)
(* created at that moment; each is then fed the rest of the recording, in  *)
(* chunks of the same size, the calls on the two interleaved at will.      *)
(***************************************************************************)
ResetChunkSizes == {2048, 4096}

InitReset ==
    /\ descriptor \in StreamDescriptors
    /\ chunk_size \in ResetChunkSizes
    /\ pos = 0
    /\ state = ResetState
    /\ returned = <<>>
    /\ noise = <<>>
    /\ twin = NoTwin
    /\ EncIdle
    /\ BldIdle
    /\ PrsIdle
    /\ DecIdle /\ ApiIdle /\ DemIdle

\* process_audio_chunk on the first decoder, before it is reset.
FeedHistory == twin.from = -1 /\ ProcessAudioChunk

\* reset_state() on the first decoder, PythonSAMEDecoder() for the second
\* (lines 66-68: its state is the dict reset_state assigns).
Reset ==
    /\ twin.from = -1
    /\ pos > 0
    /\ pos < RecordingLen(descriptor)
    /\ state' = reset_state(state)
    /\ returned' = <<>>
    /\ twin' = [st |-> ResetState, out |-> <<>>, pos |-> pos, from |-> pos]
    /\ \E c \in ResetChunkSizes : chunk_size' = c
    /\ UNCHANGED <<apivars, demvars, descriptor, pos, noise, encvars, bldvars, prsvars, decvars>>

\* process_audio_chunk on the first decoder, after its reset.
FeedReset == twin.from >= 0 /\ ProcessAudioChunk

\* process_audio_chunk on the second decoder.
FeedTwin ==
    /\ twin.from >= 0
    /\ twin.pos < RecordingLen(descriptor)
    /\ LET size == Min(chunk_size, RecordingLen(descriptor) - twin.pos)
           r    == process_audio_chunk(twin.st, descriptor, twin.pos, size)
       IN  twin' = [twin EXCEPT !.st = r.st,
                                !.out = twin.out \o r.out,
                                !.pos = twin.pos + size]
    /\ UNCHANGED <<apivars, demvars, descriptor, pos, chunk_size, state, returned, noise,
                   encvars, bldvars, prsvars, decvars>>

\* Both decoders are dropped and a new one is created for another recording.
Restart ==
    /\ pos = RecordingLen(descriptor)
    /\ twin.from >= 0 => twin.pos = RecordingLen(descriptor)
    /\ \E d \in StreamDescriptors : descriptor' = d
    /\ \E c \in ResetChunkSizes : chunk_size' = c
    /\ pos' = 0
    /\ state' = ResetState
    /\ returned' = <<>>
    /\ twin' = NoTwin
    /\ UNCHANGED <<apivars, demvars, noise, encvars, bldvars, prsvars, decvars>>

NextReset == FeedHistory \/ Reset \/ FeedReset \/ FeedTwin \/ Restart

SpecReset == InitReset /\ [][NextReset]_vars

\* What the two decoders hold once they have processed the same chunks.
SameAfterReset ==
    /\ (twin.from >= 0 /\ twin.pos = pos)
           => (state = twin.st /\ returned = twin.out)
    /\ twin.from = pos => state = ResetState

\* C15: once the reset decoder and the new decoder have processed the same
\* chunks, they have returned the same messages and hold the same state,
\* in whatever order the calls on the two were made; and a call on one of
\* them changes neither the state nor the results of the other.
ResetRestoresInitialState ==
    /\ []SameAfterReset
    /\ [][ twin.from >= 0 /\ twin'.from >= 0
             => /\ twin' # twin => (state' = state /\ returned' = returned)
                /\ (state' # state \/ returned' # returned)
                      => twin' = twin ]_vars

ResetAfterHistory ==
    /\ twin.from >= 1024
    /\ pos = RecordingLen(descriptor)
    /\ twin.pos = pos
    /\ returned # <<>>
    /\ returned = twin.out
    /\ state = twin.st
    /\ state.l2_state = "READING_MESSAGE"


-----------------------------------------------------------------------------
(***************************************************************************)
(* Decoding a whole file or byte string: the wrapper of the external       *)
(* decoder (decoder.py) and the decoder written in Python.                 *)
(***************************************************************************)
MAX_FILE_SIZE == 10 * 1024 * 1024
MAX_SAMPLE_RATE == 48000
MIN_SAMPLE_RATE == 8000
MAX_DURATION_SECONDS == 300
sample_rate == 22050
PREAMBLE_COUNT == 16

\* What the audio of a well-formed WAV file holds: nothing, silence, the
\* preamble of a burst and no more, a whole burst, or more audio than
\* MAX_DURATION_SECONDS.
AudioKinds == {"empty", "silence", "preamble", "burst", "overlong"}

PreambleLen == LeadSilence + correlation_length * 8 * PREAMBLE_COUNT

\* len(audio_data): the first samples of the recording of TornadoK.
Samples(audio, rate) ==
    CASE audio = "empty"    -> 0
      [] audio = "silence"  -> LeadSilence
      [] audio = "preamble" -> PreambleLen
      [] audio = "burst"    -> RecordingLen(TornadoK)
      [] audio = "overlong" -> MAX_DURATION_SECONDS * rate + 1

\* The bytes of a file: their number, whether bytes 0-3 and 8-11 read RIFF
\* and WAVE, and for a WAV file its sample rate and its audio.  A rate
\* within the limits is the decoder's own, so that nothing is resampled.
WavContents ==
    { [size |-> s, magic |-> TRUE, rate |-> r, audio |-> a] :
        s \in {MAX_FILE_SIZE, MAX_FILE_SIZE + 1},
        r \in {sample_rate}, a \in AudioKinds }
    \cup
    { [size |-> s, magic |-> TRUE, rate |-> r, audio |-> "burst"] :
        s \in {MAX_FILE_SIZE, MAX_FILE_SIZE + 1},
        r \in {MIN_SAMPLE_RATE - 1, MAX_SAMPLE_RATE + 1} }

NotWavContents ==
    { [size |-> s, magic |-> FALSE, rate |-> 0, audio |-> "empty"] :
        s \in {MAX_FILE_SIZE, MAX_FILE_SIZE + 1} }

Contents == WavContents \cup NotWavContents

NoBytes == [size |-> 0, magic |-> FALSE, rate |-> 0, audio |-> "empty"]

\* What a path names: nothing, a directory, a regular file, or a symbolic
\* link to a regular file.
Paths ==
    { [kind |-> "missing", content |-> NoBytes],
      [kind |-> "directory", content |-> NoBytes] }
    \cup { [kind |-> k, content |-> c] :
             k \in {"regular", "symlink"}, c \in Contents }

\* The temporary file decode_bytes writes the bytes to.
TempFile(wav_data) == [kind |-> "regular", content |-> wav_data]

\* One line of the external decoder's output: a message, an end of message,
\* or anything else.
MessageLine == [kind |-> "message", body |-> Body(TornadoK)]
EomLine == [kind |-> "eom", body |-> <<>>]
OtherLine == [kind |-> "other", body |-> <<>>]

NoRun == [exit |-> "none", stdout |-> <<>>]

\* What running the external decoder on a file can come to: it is missing,
\* it fails, it takes too long, or it prints lines; it prints no message
\* for audio that holds none.
MultimonRuns(c) ==
    { [exit |-> e, stdout |-> <<>>] :
        e \in {"FileNotFoundError", "CalledProcessError", "TimeoutExpired"} }
    \cup
    { [exit |-> "ok", stdout |-> o] :
        o \in (IF c.audio \in {"burst", "overlong"}
               THEN {<<MessageLine>>, <<MessageLine, EomLine>>}
               ELSE {})
              \cup (IF c.audio # "burst" THEN {<<>>, <<OtherLine>>} ELSE {}) }

AllRuns == UNION { MultimonRuns(c) : c \in Contents }

\* The outcome of a call: an exception raised to the caller or a value
\* returned, whether the demodulator (or the external decoder) was run,
\* and whether a temporary file was created and whether it is left.
DecRaised(exc, text) ==
    [status |-> "raised", exc |-> exc, text |-> text, value |-> None,
     ran |-> FALSE, run |-> NoRun, temp |-> FALSE, left |-> FALSE]

DecReturned(value) ==
    [status |-> "returned", exc |-> "", text |-> "", value |-> value,
     ran |-> TRUE, run |-> NoRun, temp |-> FALSE, left |-> FALSE]

\* decoder.py lines 151-213.  A message line is a JSON object with the key
\* last_message, or a text line "EAS: ZCZC-" and the body; an end-of-message
\* line is a JSON object with the key end_of_message, or a text line with
\* NNNN.
RECURSIVE ParseLines(_, _)
ParseLines(result, lines) ==
    IF lines = <<>> THEN result
    ELSE LET line == Head(lines)
             r == CASE line.kind = "message" ->
                         [result EXCEPT
                            !.messages = Append(@,
                                [demod_name |-> "EAS",
                                 header_begin |-> "ZCZC",
                                 last_message |-> line.body]),
                            !.success = TRUE]
                    [] line.kind = "eom" ->
                         [result EXCEPT !.end_of_message = TRUE]
                    [] OTHER -> result
         IN  ParseLines(r, Tail(lines))

parse_output(output, is_json) ==
    LET result == [success |-> FALSE, messages |-> <<>>,
                   end_of_message |-> FALSE,
                   raw_output |-> [kind |-> "stdout", of |-> output]]
    IN  IF output = <<>> THEN result ELSE ParseLines(result, output)

\* decoder.py lines 38-109.
SAMEDecoder_decode(path, use_json, run) ==
    IF path.kind = "missing"
    THEN DecRaised("FileNotFoundError", "WAV file not found")
    ELSE IF path.kind = "directory"
    THEN DecRaised("ValueError", "Path must be a regular file")
    ELSE IF ~path.content.magic
    THEN DecRaised("ValueError", "File is not a valid WAV file")
    ELSE IF run.exit = "FileNotFoundError"
    THEN [DecRaised("FileNotFoundError", "multimon-ng binary not found")
             EXCEPT !.run = run]
    ELSE IF run.exit = "CalledProcessError"
    THEN [DecRaised("RuntimeError", "Decoding failed")
             EXCEPT !.ran = TRUE, !.run = run]
    ELSE IF run.exit = "TimeoutExpired"
    THEN [DecRaised("RuntimeError", "Decoding timed out after 30 seconds")
             EXCEPT !.ran = TRUE, !.run = run]
    ELSE [DecReturned(parse_output(run.stdout, use_json)) EXCEPT !.run = run]

\* decoder.py lines 111-149.
SAMEDecoder_decode_bytes(wav_data, use_json, run) ==
    IF wav_data.size > MAX_FILE_SIZE
    THEN DecRaised("ValueError", "File too large")
    ELSE IF ~wav_data.magic
    THEN DecRaised("ValueError", "Data is not a valid WAV file")
    ELSE [SAMEDecoder_decode(TempFile(wav_data), use_json, run)
             EXCEPT !.temp = TRUE]

\* python_decoder.py lines 143-151: the locals of the loop when no state
\* is carried over.
FreshLocals ==
    [ phase         |-> 0,
      integrator    |-> 0,
      dcd_shreg     |-> [hi |-> 0, lo |-> 0],
      lasts         |-> 0,
      sync_locked   |-> FALSE,
      byte_counter  |-> 0,
      decoded_bytes |-> <<>>,
      i             |-> 0,
      broke         |-> FALSE ]

\* python_decoder.py lines 105-262, use_state = False, on the first n
\* samples of the recording of TornadoK.
demodulate_fsk_with_decode(n) ==
    Run(FreshLocals, TornadoK, 0, n, n).decoded_bytes

\* str.find: the index, from 0, of the first place pat is found, or -1.
Find(text, pat) ==
    LET at == { i \in 0..(Len(text) - Len(pat)) :
                  SubSeq(text, i + 1, i + Len(pat)) = pat }
    IN  IF at = {} THEN -1 ELSE CHOOSE i \in at : \A j \in at : i <= j

IsUpperDigitPlus(c) ==
    c \in Ord("A")..Ord("Z") \/ c \in Ord("0")..Ord("9") \/ c = PLUS

\* python_decoder.py lines 510-567.
extract_messages(byte_stream) ==
    LET text == [i \in 1..Len(byte_stream) |->
                   IF byte_stream[i] \in 32..126 THEN byte_stream[i]
                   ELSE Ord("?")]
        zczc_pos == Find(text, ZCZC)
        message_start == zczc_pos + 4
        \* the places, from 0, where the loop ends: after a dash that
        \* something else than a SAME character follows, before a character
        \* that is neither a dash nor a SAME character, or with the text
        ends == { i \in message_start..(Len(text) - 1) :
                    IF text[i + 1] = DASH
                    THEN /\ i + 1 < Len(text)
                         /\ ~(IsUpperDigitPlus(text[i + 2]) \/ text[i + 2] = DASH)
                    ELSE ~IsUpperDigitPlus(text[i + 1]) }
        stop == IF ends = {} THEN Len(text)
                ELSE LET e == CHOOSE i \in ends : \A j \in ends : i <= j
                     IN  IF text[e + 1] = DASH THEN e + 1 ELSE e
        message_chars == SubSeq(text, message_start + 1, stop)
    IN  IF zczc_pos = -1 \/ message_chars = <<>> THEN <<>>
        ELSE << [demod_name |-> "EAS", header_begin |-> "ZCZC",
                 last_message |-> message_chars] >>

\* python_decoder.py lines 622-641.
decode_stream(n) == extract_messages(demodulate_fsk_with_decode(n))

\* What decode_stream makes of each audio short enough to be decoded.
Decoded ==
    [a \in AudioKinds \ {"overlong"} |-> decode_stream(Samples(a, sample_rate))]

Failure(text) ==
    [success |-> FALSE, messages |-> <<>>, end_of_message |-> FALSE,
     raw_output |-> [kind |-> "Error", of |-> text]]

\* python_decoder.py lines 680-741: what follows reset_state, inside the
\* try.  wavfile.read raises ValueError on a file that is no WAV file.
ReadAndDecode(c) ==
    IF ~c.magic
    THEN [DecReturned(Failure("File format not understood")) EXCEPT !.ran = FALSE]
    ELSE IF c.rate > MAX_SAMPLE_RATE
    THEN [DecReturned(Failure("Sample rate exceeds maximum")) EXCEPT !.ran = FALSE]
    ELSE IF c.rate < MIN_SAMPLE_RATE
    THEN [DecReturned(Failure("Sample rate below minimum")) EXCEPT !.ran = FALSE]
    ELSE IF Samples(c.audio, c.rate) > MAX_DURATION_SECONDS * c.rate
    THEN [DecReturned(Failure("Audio duration exceeds maximum")) EXCEPT !.ran = FALSE]
    ELSE LET messages == Decoded[c.audio]
         IN  DecReturned([success |-> Len(messages) > 0,
                       messages |-> messages,
                       end_of_message |-> FALSE,
                       raw_output |-> [kind |-> "messages", of |-> messages]])

\* python_decoder.py lines 643-741.
PythonSAMEDecoder_decode_file(path) ==
    IF path.kind = "missing"
    THEN DecRaised("FileNotFoundError", "WAV file not found")
    ELSE IF path.kind = "symlink"
    THEN DecRaised("ValueError", "Symbolic links are not allowed")
    ELSE IF path.kind = "directory"
    THEN DecRaised("ValueError", "Path must be a regular file")
    ELSE ReadAndDecode(path.content)

\* python_decoder.py lines 743-772.
PythonSAMEDecoder_decode_bytes(wav_data) ==
    [PythonSAMEDecoder_decode_file(TempFile(wav_data)) EXCEPT !.temp = TRUE]

InitDecode == DecIdle /\ ApiIdle /\ DemIdle /\ L2Idle /\ EncIdle /\ BldIdle /\ PrsIdle

\* SAMEDecoder.decode on a path.
Decode ==
    \E path \in Paths, use_json \in BOOLEAN, run \in AllRuns :
        /\ run \in MultimonRuns(path.content)
        /\ decCall' = [class |-> "SAMEDecoder", method |-> "decode",
                       path |-> path, use_json |-> use_json]
        /\ decResult' = SAMEDecoder_decode(path, use_json, run)
        /\ UNCHANGED <<apivars, demvars, l2vars, encvars, bldvars, prsvars>>

\* SAMEDecoder.decode_bytes on the bytes of an upload.
DecodeBytes ==
    \E wav_data \in Contents, use_json \in BOOLEAN, run \in AllRuns :
        /\ run \in MultimonRuns(wav_data)
        /\ decCall' = [class |-> "SAMEDecoder", method |-> "decode_bytes",
                       path |-> [kind |-> "bytes", content |-> wav_data],
                       use_json |-> use_json]
        /\ decResult' = SAMEDecoder_decode_bytes(wav_data, use_json, run)
        /\ UNCHANGED <<apivars, demvars, l2vars, encvars, bldvars, prsvars>>

\* PythonSAMEDecoder.decode_file on a path; the decoder's state is reset
\* once the path is found to name a regular file.
DecodeFile ==
    \E path \in Paths :
        /\ decCall' = [class |-> "PythonSAMEDecoder", method |-> "decode_file",
                       path |-> path, use_json |-> TRUE]
        /\ decResult' = PythonSAMEDecoder_decode_file(path)
        /\ state' = IF path.kind = "regular" THEN reset_state(state) ELSE state
        /\ UNCHANGED <<apivars, demvars, descriptor, pos, chunk_size, returned, noise, twin,
                       encvars, bldvars, prsvars>>

\* PythonSAMEDecoder.decode_bytes on the bytes of an upload.
PyDecodeBytes ==
    \E wav_data \in Contents :
        /\ decCall' = [class |-> "PythonSAMEDecoder", method |-> "decode_bytes",
                       path |-> [kind |-> "bytes", content |-> wav_data],
                       use_json |-> TRUE]
        /\ decResult' = PythonSAMEDecoder_decode_bytes(wav_data)
        /\ state' = reset_state(state)
        /\ UNCHANGED <<apivars, demvars, descriptor, pos, chunk_size, returned, noise, twin,
                       encvars, bldvars, prsvars>>

NextDecode == Decode \/ DecodeBytes \/ DecodeFile \/ PyDecodeBytes

SpecDecode == InitDecode /\ [][NextDecode]_vars

\* A call was made on bytes that could be read.
CalledOnBytes ==
    /\ decResult.status \in {"raised", "returned"}
    /\ decCall.path.kind \in {"regular", "bytes"}

\* The call was made on a WAV file within the limits of size, rate and
\* duration whose audio holds no message, and the external decoder, where
\* there is one, did not fail.
CalledOnNoMessage ==
    /\ CalledOnBytes
    /\ decCall.path.content.magic
    /\ decCall.path.content.size <= MAX_FILE_SIZE
    /\ decCall.path.content.rate = sample_rate
    /\ decCall.path.content.audio \in {"empty", "silence", "preamble"}
    /\ decResult.run.exit \in {"none", "ok"}

\* C17: decoding audio that holds no SAME message, an empty buffer included,
\* raises nothing and returns a result that reports success and has an
\* empty list of messages.
NoMessageIsSuccess ==
    CalledOnNoMessage
        => /\ decResult.status = "returned"
           /\ decResult.value.success
           /\ decResult.value.messages = <<>>

\* C18: a call on a file or on bytes whose magic bytes are not RIFF and
\* WAVE raises ValueError to the caller, and neither the demodulator nor
\* the external decoder has been run.
BadMagicRaisesValueError ==
    (CalledOnBytes /\ ~decCall.path.content.magic)
        => /\ decResult.status = "raised"
           /\ decResult.exc = "ValueError"
           /\ ~decResult.ran

\* C19: decode_bytes on more than 10 MiB raises ValueError with a text that
\* says the file is too large, whatever the magic bytes are, and no
\* temporary file has been created.
OversizeRejected ==
    ( /\ decResult.status \in {"raised", "returned"}
      /\ decCall.method = "decode_bytes"
      /\ decCall.path.content.size > MAX_FILE_SIZE )
        => /\ decResult.status = "raised"
           /\ decResult.exc = "ValueError"
           /\ decResult.text = "File too large"
           /\ ~decResult.temp


-----------------------------------------------------------------------------
(***************************************************************************)
(* The loop of demodulate_fsk_with_decode, one pass at a time, in a call   *)
(* on a whole recording (use_state = False).  loc holds the locals and     *)
(* what the last pass did with them.                                       *)
(***************************************************************************)
MaxPasses == 400     \* passes of the loop followed from where a run starts
MaxJitter == 3       \* the first of them may see any metric

\* The recordings the call is made on.
DemodRecordings == {TornadoK, Interrupted, LongBurst, Misaligned}

\* The passes already made where a run starts: none, the last byte of a
\* burst, the byte 0x01 of the interrupted burst, the character W of the
\* misaligned one, the 301st byte of the long one.
BitPasses == 8 * (correlation_length \div SUBSAMP)
DemodStarts(d) ==
    IF d = TornadoK THEN {0, (LeadSilence \div SUBSAMP) + BitPasses * 50}
    ELSE IF d = Interrupted
    THEN {(LeadSilence \div SUBSAMP) + BitPasses * 50}
    ELSE IF d = Misaligned
    THEN {(LeadSilence \div SUBSAMP) + BitPasses * 21}
    ELSE {(LeadSilence \div SUBSAMP) + BitPasses * 316}

\* Lines 143-153: the locals before the first pass.
BeforeLoop ==
    [ l          |-> FreshLocals,
      f          |-> 0,         \* the metric of the last pass
      transition |-> FALSE,     \* line 185 held in it
      adjusted   |-> 0,         \* the phase at line 198, before the increment
      bit        |-> FALSE,     \* line 201 held in it
      byte       |-> FALSE,     \* line 227 held in it
      lock_bytes |-> 0,         \* bytes appended since sync was declared
      passes     |-> 0 ]        \* passes followed

\* Lines 154-249: one pass of the loop on a window whose metric has the
\* sign f, and what lines 185, 198, 201 and 233 saw in it.
Pass(g, f) ==
    LET l2  == Iteration(g.l, f)
        tr  == Transition(ShiftDcd(g.l.dcd_shreg, f))
        adj == IF tr THEN DllAdjust(g.l.phase) ELSE g.l.phase
    IN  [ l          |-> l2,
          f          |-> f,
          transition |-> tr,
          adjusted   |-> adj,
          bit        |-> adj + phase_increment >= 65536,
          byte       |-> /\ adj + phase_increment >= 65536
                         /\ g.l.sync_locked
                         /\ g.l.byte_counter + 1 = 8,
          lock_bytes |-> IF ~g.l.sync_locked /\ l2.sync_locked THEN 0
                         ELSE IF Len(l2.decoded_bytes) > Len(g.l.decoded_bytes)
                         THEN g.lock_bytes + 1
                         ELSE g.lock_bytes,
          passes     |-> g.passes + 1 ]

\* At most k passes on the n samples of recording d, half of them at a time.
RECURSIVE Forward(_, _, _, _)
Forward(g, d, n, k) ==
    IF k = 0 \/ ~Looping(g.l, n) THEN g
    ELSE IF k = 1 THEN Pass(g, Metric(d, g.l.i))
    ELSE Forward(Forward(g, d, n, k \div 2), d, n, k - (k \div 2))

InitDemod ==
    /\ descriptor \in DemodRecordings
    /\ \E t \in DemodStarts(descriptor) :
          loc = [Forward(BeforeLoop, descriptor, RecordingLen(descriptor), t)
                    EXCEPT !.passes = 0]
    /\ pos = 0 /\ chunk_size = 0 /\ state = ResetState /\ returned = <<>>
    /\ noise = <<>> /\ twin = NoTwin /\ windows = <<>>
    /\ EncIdle /\ BldIdle /\ PrsIdle /\ DecIdle /\ ApiIdle

\* A pass of the loop on the next window of the recording.
Correlate ==
    /\ loc.passes < MaxPasses
    /\ Looping(loc.l, RecordingLen(descriptor))
    /\ loc' = Pass(loc, Metric(descriptor, loc.l.i))
    /\ UNCHANGED <<apivars, l2vars, windows, encvars, bldvars, prsvars, decvars>>

\* A pass of the loop on a window of other audio: any metric.
CorrelateAny ==
    /\ loc.passes < MaxJitter
    /\ Looping(loc.l, RecordingLen(descriptor))
    /\ \E f \in {-1, 0, 1} : loc' = Pass(loc, f)
    /\ UNCHANGED <<apivars, l2vars, windows, encvars, bldvars, prsvars, decvars>>

NextDemod == Correlate \/ CorrelateAny

SpecDemod == InitDemod /\ [][NextDemod]_vars

\* C21: a pass of the loop after which the loop goes on has advanced the
\* sample index by SUBSAMP, so that no window goes through the shift
\* register, the integrator and the phase twice; the passes in which a
\* byte 0xAB of the preamble is discarded included.
EveryPassAdvances ==
    [][ (loc'.passes = loc.passes + 1 /\ ~loc'.l.broke)
           => loc'.l.i = loc.l.i + SUBSAMP ]_vars

\* C22: the loop of a call ends only when no window of the buffer is left,
\* however many bytes the call has decoded.
WholeBufferConsumed ==
    ~Looping(loc.l, RecordingLen(descriptor))
        => loc.l.i >= RecordingLen(descriptor) - correlation_length

\* C23: no more than 300 bytes are decoded between the declaration of sync
\* and its loss, and the loop is cut short only when the present lock has
\* decoded that many.
CapPerLock ==
    /\ loc.lock_bytes <= MAX_DECODED
    /\ loc.l.broke => loc.lock_bytes >= MAX_DECODED


-----------------------------------------------------------------------------
(***************************************************************************)
(* The windows process_audio_chunk correlates when the start of a          *)
(* recording is pushed in chunks of any lengths.                           *)
(***************************************************************************)
GridLen == 56       \* samples of the recording that are pushed

\* len(audio_chunk): odd and even, shorter and longer than a window.
GridChunks == {1, 2, 41, 43, 50}

\* Lines 153-249: where in the stream the windows of the passes of one call
\* start, in the order of the passes.
RECURSIVE WindowStarts(_, _, _, _)
WindowStarts(l, d, start, n) ==
    IF ~Looping(l, n) THEN <<>>
    ELSE <<start + l.i>>
             \o WindowStarts(Iteration(l, Metric(d, start + l.i)), d, start, n)

\* Lines 591-596: the windows of the call of process_audio_chunk on the size
\* samples that follow the fed ones.
WindowsOfCall(st, d, fed, size) ==
    LET held  == st.audio_buffer.len > 0
        start == IF held THEN st.audio_buffer.start ELSE fed
        n     == IF held THEN st.audio_buffer.len + size ELSE size
    IN  WindowStarts(LoadLocals(st), d, start, n)

InitGrid ==
    /\ descriptor = TornadoK
    /\ pos = 0 /\ chunk_size = 0 /\ state = ResetState /\ returned = <<>>
    /\ noise = <<>> /\ twin = NoTwin
    /\ loc = NoLoc /\ windows = <<>>
    /\ EncIdle /\ BldIdle /\ PrsIdle /\ DecIdle /\ ApiIdle

\* process_audio_chunk on the next samples of the recording, as many as the
\* caller likes.
PushChunk ==
    \E size \in GridChunks :
        /\ pos + size <= GridLen
        /\ LET r == process_audio_chunk(state, descriptor, pos, size)
           IN  /\ state' = r.st
               /\ returned' = returned \o r.out
        /\ windows' = windows \o WindowsOfCall(state, descriptor, pos, size)
        /\ pos' = pos + size
        /\ chunk_size' = size
        /\ UNCHANGED <<apivars, descriptor, noise, twin, loc,
                       encvars, bldvars, prsvars, decvars>>

\* reset_state(), before the recording is pushed again.
ResetGrid ==
    /\ pos > 0
    /\ state' = reset_state(state)
    /\ pos' = 0 /\ chunk_size' = 0 /\ returned' = <<>> /\ windows' = <<>>
    /\ UNCHANGED <<apivars, descriptor, noise, twin, loc,
                   encvars, bldvars, prsvars, decvars>>

NextGrid == PushChunk \/ ResetGrid

SpecGrid == InitGrid /\ [][NextGrid]_vars

\* C24: whatever the lengths of the chunks, the windows correlated so far
\* start at the samples 0, 2, 4, ... of the stream, in that order: none is
\* skipped, none comes twice, none starts at an odd sample.
SampleGridContinuity ==
    \A k \in 1..Len(windows) : windows[k] = SUBSAMP * (k - 1)


\* A legal SAME character: the high bit clear, and CR, LF or printable.
LegalByte(b) == b < 128 /\ (b = 13 \/ b = 10 \/ b \in 32..126)

\* The bytes decoded so far are legal, and the decoder takes the legal
\* bytes, and no others, for valid.
OnlyLegalBytes ==
    /\ \A b \in 0..255 : is_valid_same_char(b) <=> LegalByte(b)
    /\ \A k \in 1..Len(loc.l.decoded_bytes) : LegalByte(loc.l.decoded_bytes[k])
    /\ ~LegalByte(PREAMBLE_BYTE) /\ ~LegalByte(0) /\ ~LegalByte(1)

\* C25, as stated: a byte is legal iff its high bit is clear and it is CR,
\* LF or in 32..126; every byte handed to level 2 is legal; and a completed
\* byte that is illegal is not handed on and drops sync.
IllegalByteDropsSync ==
    /\ []OnlyLegalBytes
    /\ [][ (loc'.passes = loc.passes + 1 /\ loc'.byte
              /\ ~LegalByte(loc'.l.lasts))
            => /\ loc'.l.decoded_bytes = loc.l.decoded_bytes
               /\ ~loc'.l.sync_locked ]_vars

\* C25, amended: the same, the completed byte being illegal and not the
\* preamble byte 0xAB, which is discarded without loss of sync.
IllegalByteButPreambleDropsSync ==
    /\ []OnlyLegalBytes
    /\ [][ (loc'.passes = loc.passes + 1 /\ loc'.byte
              /\ ~LegalByte(loc'.l.lasts))
            => /\ loc'.l.decoded_bytes = loc.l.decoded_bytes
               /\ loc'.l.lasts # PREAMBLE_BYTE => ~loc'.l.sync_locked ]_vars

\* The byte 0x01 of the interrupted burst has been completed: it was not
\* appended to the bytes decoded before it, and sync is lost.
ControlByteDropped ==
    /\ descriptor = Interrupted
    /\ loc.byte /\ loc.l.lasts = 1
    /\ ~loc.l.sync_locked
    /\ Len(loc.l.decoded_bytes) = Len(TornadoK)


\* Between bits the bit counter is within 0..7, and 0 when there is no sync.
BitCounterInRange ==
    /\ loc.l.byte_counter \in 0..7
    /\ ~loc.l.sync_locked => loc.l.byte_counter = 0

\* C26: without sync, sync is declared at the first completed bit at which
\* the register reads 0xAB, and the bit counter is zeroed; with sync, the
\* register is taken as a byte on every 8th completed bit only, 0xAB in the
\* register at another bit leaves the byte boundary where it is, and sync
\* is lost through an illegal byte only; the bit counter is within 0..7
\* and is 0 when there is no sync.
ByteSync ==
    /\ []BitCounterInRange
    /\ [][ loc'.passes = loc.passes + 1 =>
             /\ (~loc.l.sync_locked /\ loc'.bit /\ loc'.l.lasts = PREAMBLE_BYTE)
                   => (loc'.l.sync_locked /\ loc'.l.byte_counter = 0)
             /\ (~loc.l.sync_locked /\ loc'.l.sync_locked)
                   => (loc'.bit /\ loc'.l.lasts = PREAMBLE_BYTE)
             /\ (loc.l.sync_locked /\ loc'.bit /\ loc.l.byte_counter < 7)
                   => /\ loc'.l.byte_counter = loc.l.byte_counter + 1
                      /\ loc'.l.sync_locked
                      /\ loc'.l.decoded_bytes = loc.l.decoded_bytes
             /\ (loc.l.sync_locked /\ loc'.bit /\ loc.l.byte_counter = 7)
                   => /\ loc'.l.byte_counter = 0
                      /\ LegalByte(loc'.l.lasts)
                            => loc'.l.decoded_bytes
                                 = Append(loc.l.decoded_bytes, loc'.l.lasts)
             /\ ~loc'.bit
                   => /\ loc'.l.byte_counter = loc.l.byte_counter
                      /\ loc'.l.sync_locked = loc.l.sync_locked
                      /\ loc'.l.lasts = loc.l.lasts
                      /\ loc'.l.decoded_bytes = loc.l.decoded_bytes
             /\ (loc.l.sync_locked /\ ~loc'.l.sync_locked)
                   => (loc'.byte /\ ~LegalByte(loc'.l.lasts)) ]_vars

\* With sync, the register reads 0xAB one bit after the byte W: the bit
\* counter goes on counting.
PreambleValueInsideByte ==
    /\ descriptor = Misaligned
    /\ loc.bit /\ loc.l.lasts = PREAMBLE_BYTE
    /\ loc.l.sync_locked /\ loc.l.byte_counter = 1
    /\ loc.l.decoded_bytes # <<>>
    /\ loc.l.decoded_bytes[Len(loc.l.decoded_bytes)] = Ord("W")


\* The phase is where the delay-locked loop decrements it on a transition.
DecrementCondition(phase) ==
    /\ phase < 32768 - (phase_increment \div 8)
    /\ phase > phase_increment \div 2

\* C27: on a transition, when the condition of the decrement does not hold
\* and the phase is below 0x10000 - PHASE_INC/2, the phase is increased by
\* min(floor((0x10000 - phase) * gain), DLL_MAX_INC) before the increment of
\* the pass, the gain being 0.5; a phase of PHASE_INC/2 or less included.
DllIncrements ==
    [][ ( /\ loc'.passes = loc.passes + 1
          /\ loc'.transition
          /\ ~DecrementCondition(loc.l.phase)
          /\ loc.l.phase < 65536 - (phase_increment \div 2) )
        => loc'.adjusted
             = loc.l.phase + Min((65536 - loc.l.phase) \div 2, DLL_MAX_INC)
      ]_vars


\* The register lasts after one more bit, decided by the integrator.
ShiftedIn(lasts, integrator) ==
    (lasts \div 2) + (IF integrator >= 0 THEN 128 ELSE 0)

\* C28: when the phase reaches 0x10000 or more with the increment of a
\* pass, one bit is clocked into the register and the phase is 1, whatever
\* it had beyond 0x10000; otherwise no bit is clocked; and in a pass without
\* a transition the phase changes by the increment or by that wrap only.
PhaseWrapsToOne ==
    [][ loc'.passes = loc.passes + 1 =>
          /\ loc'.adjusted + phase_increment >= 65536
               => /\ loc'.l.phase = 1
                  /\ loc'.bit
                  /\ loc'.l.lasts = ShiftedIn(loc.l.lasts, loc'.l.integrator)
          /\ loc'.adjusted + phase_increment < 65536
               => /\ loc'.l.phase = loc'.adjusted + phase_increment
                  /\ ~loc'.bit
                  /\ loc'.l.lasts = loc.l.lasts
          /\ ~loc'.transition
               => /\ loc'.adjusted = loc.l.phase
                  /\ loc'.l.phase
                       = (IF loc.l.phase + phase_increment >= 65536 THEN 1
                          ELSE loc.l.phase + phase_increment) ]_vars

\* A bit period has completed with the phase beyond 0x10000, and the phase
\* is 1.
OvershootDiscarded ==
    /\ loc.bit
    /\ loc.adjusted + phase_increment > 65536
    /\ loc.l.phase = 1
    /\ loc.l.sync_locked

\* The registers between two windows.
RegistersInRange ==
    /\ loc.l.phase \in 0..65535
    /\ loc.adjusted \in 0..65535
    /\ loc.l.integrator \in (-INTEGRATOR_MAX)..INTEGRATOR_MAX
    /\ loc.l.dcd_shreg.hi \in 0..65535 /\ loc.l.dcd_shreg.lo \in 0..65535
    /\ loc.l.lasts \in 0..255

\* C29: between two windows, whatever the metrics were, the phase is within
\* 0..0xFFFF, and so it was after the correction of the delay-locked loop;
\* the integrator is within -10..10, and a metric of 0 leaves it as it is;
\* the decision shift register is below 2^32 and the byte register below
\* 256.
RegisterRanges ==
    /\ []RegistersInRange
    /\ [][ (loc'.passes = loc.passes + 1 /\ loc'.f = 0)
              => loc'.l.integrator = loc.l.integrator ]_vars
    /\ [][ (loc'.passes = loc.passes + 1 /\ loc'.f > 0)
              => loc'.l.integrator
                   = Min(loc.l.integrator + 1, INTEGRATOR_MAX) ]_vars
    /\ [][ (loc'.passes = loc.passes + 1 /\ loc'.f < 0)
              => -loc'.l.integrator
                   = Min(1 - loc.l.integrator, INTEGRATOR_MAX) ]_vars

\* The silence after a burst: a metric of 0 has left the integrator at its
\* lower limit, where the space tone of the last bits had driven it.
SilenceAtLowerLimit ==
    /\ descriptor = TornadoK
    /\ loc.passes > MaxJitter
    /\ loc.f = 0
    /\ loc.l.integrator = -INTEGRATOR_MAX
    /\ loc.l.dcd_shreg.lo = 0
    /\ loc.l.decoded_bytes = TornadoK


-----------------------------------------------------------------------------
(***************************************************************************)
(* One byte from the encoder to the decoder's byte register: the bits of   *)
(* _encode_byte, clocked in by the lines 201-211 of the decoder from a     *)
(* byte boundary on.                                                       *)
(***************************************************************************)
\* The byte the register holds at the boundary: a preamble byte, on which
\* sync was declared, or a character decoded before.
BoundaryBytes == {PREAMBLE_BYTE, Ord("C")}

\* What the integrator can hold when a bit is decided: 0 or more after a
\* mark, less than 0 after a space.
IntegratorsFor(tone) ==
    IF tone = mark_bit THEN {0, 1, INTEGRATOR_MAX} ELSE {-1, -INTEGRATOR_MAX}

InitBits ==
    /\ \E b \in 0..255 : descriptor = <<b>>
    /\ \E prev \in BoundaryBytes :
          loc = [BeforeLoop EXCEPT !.l.sync_locked = TRUE, !.l.lasts = prev,
                                   !.l.phase = 1]
    /\ pos = 0 /\ chunk_size = 0 /\ state = ResetState /\ returned = <<>>
    /\ noise = <<>> /\ twin = NoTwin /\ windows = <<>>
    /\ EncIdle /\ BldIdle /\ PrsIdle /\ DecIdle /\ ApiIdle

\* The next bit of the byte completes its period: lines 201-249.
ClockBit ==
    /\ loc.passes < 8
    /\ \E v \in IntegratorsFor(encode_byte(descriptor[1])[loc.passes + 1]) :
          loc' = [loc EXCEPT !.l = BitPeriod([loc.l EXCEPT !.integrator = v,
                                                           !.phase = 1]),
                             !.bit = TRUE,
                             !.byte = (loc.passes = 7),
                             !.passes = @ + 1]
    /\ UNCHANGED <<apivars, l2vars, windows, encvars, bldvars, prsvars, decvars>>

NextBits == ClockBit

SpecBits == InitBits /\ [][NextBits]_vars

\* C30: for every byte b, once the eight bits the encoder makes of b have
\* been shifted into the byte register from a byte boundary on, a zero
\* integrator counting as 1, the register holds b.
BitOrderRoundTrip ==
    loc.passes = 8 => loc.l.lasts = descriptor[1]

\* The byte 0x80 has gone through, its last bit decided on an integrator
\* of 0.
HighBitByteThrough ==
    /\ descriptor = <<128>>
    /\ loc.passes = 8
    /\ loc.l.integrator = 0
    /\ loc.l.lasts = 128
    /\ loc.l.byte_counter = 0

-----------------------------------------------------------------------------
(***************************************************************************)
(* The level-2 machine handed any legal bytes: one call of                 *)
(* _process_decoded_byte at a time, or the bytes of a whole error-free     *)
(* transmission in one call of process_audio_chunk.                        *)
(***************************************************************************)
MaxHanded == 5       \* calls made after the opening bytes
OverrunFill == 298   \* characters of the opening that nearly fills the buffer

\* Legal characters (lines 264-292): the letters of the two markers, the
\* dash and one more letter.
MachineBytes == {Ord("Z"), Ord("C"), Ord("N"), DASH, Ord("A")}

\* A header begun, three fields in.
ThreeFields == ZCZC \o Str(<<"-", "A", "-", "A", "-", "A">>)

\* A header begun, eight characters into the field its fifth dash will end.
EightCharField ==
    ZCZC \o Str(<<"-", "A", "-", "A", "-", "A", "-",
                  "1", "2", "3", "4", "5", "6", "7", "8">>)

\* A ZCZC followed by OverrunFill characters, none of them a dash.
NearlyFull == ZCZC \o [k \in 1..OverrunFill |-> Ord("A")]

\* What the decoder has been handed when the model takes over.
Openings == {<<>>, ThreeFields, EightCharField, NearlyFull}

\* No transmission has been handed to the decoder since it was reset.
NoTransmission == <<>>

InitMachine ==
    /\ descriptor = NoTransmission
    /\ pos = 0
    /\ chunk_size = 0
    /\ noise \in Openings
    /\ LET r == FeedAll([st |-> ResetState, out |-> <<>>], noise)
       IN  /\ state = r.st
           /\ returned = r.out
    /\ twin = NoTwin
    /\ EncIdle
    /\ BldIdle
    /\ PrsIdle
    /\ DecIdle /\ ApiIdle /\ DemIdle

\* One more legal byte goes through the loop of process_audio_chunk.
HandByte ==
    /\ pos < MaxHanded
    /\ \E b \in MachineBytes :
         /\ LET r == FeedByte([st |-> state, out |-> returned], b)
            IN  /\ state' = r.st
                /\ returned' = r.out
         /\ noise' = Append(noise, b)
    /\ pos' = pos + 1
    /\ chunk_size' = 1
    /\ UNCHANGED <<apivars, demvars, descriptor, twin, encvars, bldvars, prsvars, decvars>>

\* The bytes of a whole transmission, EOM included, go through that loop:
\* one transmission between two resets.
HandTransmission ==
    /\ pos < MaxHanded
    /\ descriptor = NoTransmission
    /\ \E d \in StreamDescriptors :
         /\ LET r == FeedAll([st |-> state, out |-> returned], StreamOf[d])
            IN  /\ state' = r.st
                /\ returned' = r.out
         /\ noise' = noise \o StreamOf[d]
         /\ descriptor' = d
         /\ chunk_size' = Len(StreamOf[d])
    /\ pos' = pos + 1
    /\ UNCHANGED <<apivars, demvars, twin, encvars, bldvars, prsvars, decvars>>

\* reset_state().
ResetMachine ==
    /\ pos > 0
    /\ state' = reset_state(state)
    /\ returned' = <<>>
    /\ noise' = <<>>
    /\ pos' = 0
    /\ chunk_size' = 0
    /\ descriptor' = NoTransmission
    /\ UNCHANGED <<apivars, demvars, twin, encvars, bldvars, prsvars, decvars>>

NextMachine == HandByte \/ HandTransmission \/ ResetMachine

SpecMachine == InitMachine /\ [][NextMachine]_vars

\* The step is one call of _process_decoded_byte, and the byte it was given.
OneByteHanded == pos' = pos + 1 /\ chunk_size' = 1
HandedByte == noise'[Len(noise')]

\* The window of HEADER_SEARCH once the byte of this call has joined it.
SearchWindow == Append(state.header_buffer, HandedByte)

\* C31: header search is a sliding window of four bytes.  A call made in
\* IDLE opens the window with its byte.  A call made in HEADER_SEARCH keeps a
\* window of fewer than four bytes; on the window ZCZC it enters
\* READING_MESSAGE with an empty message buffer; on the window NNNN it
\* returns to IDLE with an empty window; any other window of four loses its
\* first byte and the search goes on.  So the bytes handed since the reset
\* hold no ZCZC as long as the machine has not been in READING_MESSAGE, and
\* the byte that completes their first ZCZC is the one that enters it.
SlidingHeaderSearch ==
    [][ /\ OneByteHanded /\ state.l2_state = "IDLE"
          => state' = [state EXCEPT !.l2_state = "HEADER_SEARCH",
                                    !.header_buffer = <<HandedByte>>]
        /\ OneByteHanded /\ state.l2_state = "HEADER_SEARCH"
          => /\ Len(SearchWindow) <= 4
             /\ Len(SearchWindow) < 4
                  => state' = [state EXCEPT !.header_buffer = SearchWindow]
             /\ SearchWindow = ZCZC
                  => /\ state'.l2_state = "READING_MESSAGE"
                     /\ state'.message_buffer = <<>>
             /\ SearchWindow = NNNN
                  => /\ state'.l2_state = "IDLE"
                     /\ state'.header_buffer = <<>>
             /\ Len(SearchWindow) = 4 /\ SearchWindow \notin {ZCZC, NNNN}
                  => state' = [state EXCEPT !.header_buffer = Tail(SearchWindow)]
        /\ OneByteHanded /\ ~Contains(noise, ZCZC)
          => /\ state.l2_state # "READING_MESSAGE"
             /\ returned' = <<>>
             /\ Contains(noise', ZCZC)
                  <=> /\ state'.l2_state = "READING_MESSAGE"
                      /\ state'.message_buffer = <<>>
      ]_vars

\* The ZCZC found one byte into the stream, after the window ZZCZ has slid.
SecondByteZCZC ==
    /\ noise = Str(<<"Z", "Z", "C", "Z", "C">>)
    /\ state.l2_state = "READING_MESSAGE"
    /\ state.header_buffer = ZCZC
    /\ state.message_buffer = <<>>

\* The message buffer of READING_MESSAGE once the byte of this call has
\* joined it, and its dash-separated fields (empty ones included, as
\* str.split gives them).
Appended == Append(state.message_buffer, HandedByte)
FieldsOf(buf) == Split(buf, DASH)

\* buf ends with a dash, has at least 6 dash-separated fields, and the field
\* before the trailing dash has at most 8 characters.
DeclaredHeader(buf) ==
    /\ buf[Len(buf)] = DASH
    /\ Len(FieldsOf(buf)) >= 6
    /\ Len(FieldsOf(buf)[Len(FieldsOf(buf)) - 1]) <= 8

NineCharFieldKept ==
    /\ noise = EightCharField \o Str(<<"A", "-">>)
    /\ returned = <<>>
    /\ state.message_buffer = SubSeq(noise, 5, Len(noise))

\* The level-2 fields of a state, which reset_state sets to IDLE and empty.
Level2(st) == <<st.l2_state, st.header_buffer, st.message_buffer>>

\* The step hands the decoder the bytes of the transmission of descriptor'.
TransmissionHanded == pos' = pos + 1 /\ chunk_size' > 1

\* C33: a call made in READING_MESSAGE whose byte completes an NNNN in the
\* message buffer (the buffer being no declared header) leaves the machine in
\* IDLE with the header window and the message buffer empty, and returns
\* nothing.  Once a machine that was in IDLE, whatever its header window
\* held, has consumed the error-free bytes of a transmission with its EOM,
\* it is in IDLE with both buffers empty, as after reset_state, and has
\* returned for the transmission what a reset decoder returns for it.
EmbeddedNNNNResets ==
    [][ /\ ( /\ OneByteHanded
             /\ state.l2_state = "READING_MESSAGE"
             /\ ~DeclaredHeader(Appended)
             /\ Contains(Appended, NNNN) )
          => /\ Level2(state') = <<"IDLE", <<>>, <<>>>>
             /\ returned' = returned
        /\ ( /\ TransmissionHanded
             /\ state.l2_state = "IDLE" )
          => /\ Level2(state') = Level2(ResetState)
             /\ returned'
                  = returned \o CleanRun[descriptor'][Len(StreamOf[descriptor'])]
      ]_vars

\* A transmission consumed by a machine that an overrun had left in IDLE
\* with ZCZC in its header window.
TransmissionAfterOverrun ==
    /\ descriptor = TornadoK
    /\ noise = NearlyFull \o Str(<<"A", "A", "A">>) \o StreamOf[TornadoK]
    /\ Len(returned) = 4
    /\ Level2(state) = Level2(ResetState)

\* An NNNN completed in the message buffer of READING_MESSAGE.
NNNNInBuffer ==
    /\ noise = ThreeFields \o NNNN
    /\ Level2(state) = <<"IDLE", <<>>, <<>>>>
    /\ returned = <<>>

\* C34: a call made in READING_MESSAGE that leaves more than 300 bytes in the
\* message buffer, no header being declared and no NNNN being in it, returns
\* the buffer as a record with end_of_message false, empties the message
\* buffer and leaves the machine in IDLE; and no record the decoder has
\* returned has a last_message of more than 300 bytes.
OverrunForceEmits ==
    [][ OneByteHanded
          => /\ ( /\ state.l2_state = "READING_MESSAGE"
                  /\ ~DeclaredHeader(Appended)
                  /\ ~Contains(Appended, NNNN)
                  /\ Len(Appended) > 300 )
                  => /\ returned' = Append(returned, Message(Appended, FALSE))
                     /\ state'.l2_state = "IDLE"
                     /\ state'.message_buffer = <<>>
             /\ \A k \in 1..Len(returned') :
                    Len(returned'[k].last_message) <= 300
      ]_vars

\* C35: the message buffer is non-empty only while the state is
\* READING_MESSAGE; in IDLE and in HEADER_SEARCH it is empty.
BufferOnlyWhileReading ==
    state.message_buffer # <<>> => state.l2_state = "READING_MESSAGE"

\* The machine back in HEADER_SEARCH after an overrun emptied a full buffer.
SearchingAfterOverrun ==
    /\ noise = NearlyFull \o Str(<<"A", "A", "A", "Z">>)
    /\ state.l2_state = "HEADER_SEARCH"
    /\ state.header_buffer = Str(<<"Z">>)
    /\ state.message_buffer = <<>>
    /\ Len(returned) = 1

-----------------------------------------------------------------------------
(***************************************************************************)
(* The loop of demodulate_fsk_with_decode run to its end, on the samples   *)
(* of a recording that follow the place where the run starts.  pos is the  *)
(* length of the buffer.                                                   *)
(***************************************************************************)
LoopSpan == 1200     \* samples of the buffer beyond the first window

\* len(samples): the buffer ends LoopSpan samples after the window the run
\* starts on, or with the recording.
BufferLen(d, i) == Min(RecordingLen(d), i + correlation_length + LoopSpan)

InitLoop ==
    /\ descriptor \in DemodRecordings
    /\ \E t \in DemodStarts(descriptor) :
          loc = [Forward(BeforeLoop, descriptor, RecordingLen(descriptor), t)
                    EXCEPT !.passes = 0]
    /\ pos = BufferLen(descriptor, loc.l.i)
    /\ chunk_size = 0 /\ state = ResetState /\ returned = <<>>
    /\ noise = <<>> /\ twin = NoTwin /\ windows = <<>>
    /\ EncIdle /\ BldIdle /\ PrsIdle /\ DecIdle /\ ApiIdle

\* A pass of the loop on the next window of the buffer.  The passes are
\* counted as far as MaxJitter only.
LoopPass ==
    /\ Looping(loc.l, pos)
    /\ loc' = [Pass(loc, Metric(descriptor, loc.l.i))
                 EXCEPT !.passes = Min(@, MaxJitter)]
    /\ UNCHANGED <<apivars, l2vars, windows, encvars, bldvars, prsvars, decvars>>

\* One of the first passes, on a window of other audio: any metric.
LoopPassAny ==
    /\ loc.passes < MaxJitter
    /\ Looping(loc.l, pos)
    /\ \E f \in {-1, 0, 1} : loc' = Pass(loc, f)
    /\ UNCHANGED <<apivars, l2vars, windows, encvars, bldvars, prsvars, decvars>>

NextLoop == LoopPass \/ LoopPassAny

\* The call is synchronous: as long as the condition of the while holds,
\* another pass is made.
SpecLoop == InitLoop /\ [][NextLoop]_vars /\ WF_vars(NextLoop)

\* C36: the loop finishes, whatever the buffer and the state the call starts
\* in: the condition of the while fails in the end, the passes that discard
\* a preamble byte without advancing the sample index notwithstanding.
LoopTerminates == <>(~Looping(loc.l, pos))

\* The loop over, after a pass that discarded a preamble byte and left the
\* sample index where it was.
DiscardPassMade ==
    /\ loc.l.sync_locked
    /\ loc.bit
    /\ loc.byte
    /\ loc.l.lasts = PREAMBLE_BYTE
    /\ loc.l.byte_counter = 0
    /\ loc.l.phase = 1
    /\ Looping(loc.l, pos)

-----------------------------------------------------------------------------
(***************************************************************************)
(* One burst from the encoder to a reset decoder, bit by bit: the tones of *)
(* the preamble and of the body, each clocked in by the lines 201-249 of   *)
(* the decoder.  pos is the number of bits clocked in.                     *)
(***************************************************************************)
\* The bodies of the bursts: two descriptors, and the one in which the
\* register reads 0xAB inside a character.
SyncBodies == StreamDescriptors \cup {Misaligned}

\* The bits of the preamble.
PreambleBits == 8 * PREAMBLE_COUNT

InitSync ==
    /\ descriptor \in SyncBodies
    /\ loc = BeforeLoop
    /\ pos = 0 /\ chunk_size = 0 /\ state = ResetState /\ returned = <<>>
    /\ noise = <<>> /\ twin = NoTwin /\ windows = <<>>
    /\ EncIdle /\ BldIdle /\ PrsIdle /\ DecIdle /\ ApiIdle

\* The next bit of the burst completes its period: lines 201-249.
ClockStreamBit ==
    /\ pos < Len(BurstTones[descriptor])
    /\ \E v \in IntegratorsFor(BurstTones[descriptor][pos + 1]) :
          loc' = [loc EXCEPT !.l = BitPeriod([loc.l EXCEPT !.integrator = v,
                                                           !.phase = 1]),
                             !.bit = TRUE,
                             !.byte = /\ loc.l.sync_locked
                                      /\ loc.l.byte_counter + 1 = 8]
    /\ pos' = pos + 1
    /\ UNCHANGED <<apivars, descriptor, chunk_size, state, returned, noise, twin,
                   windows, encvars, bldvars, prsvars, decvars>>

NextSync == ClockStreamBit

SpecSync == InitSync /\ [][NextSync]_vars

\* C37: from reset, on the bits of 16 preamble bytes followed by those of a
\* body of legal characters, the register reads 0xAB at no bit of the
\* preamble that is not the last of a preamble byte; sync is declared at the
\* end of the first preamble byte and kept, the bit counter following the
\* bytes of the stream; the other preamble bytes are discarded; and the
\* bytes decoded are the characters of the body received so far, in order.
SyncOnPreambleBoundary ==
    /\ (pos <= PreambleBits /\ pos % 8 # 0) => loc.l.lasts # PREAMBLE_BYTE
    /\ loc.l.sync_locked <=> pos >= 8
    /\ loc.l.sync_locked => loc.l.byte_counter = pos % 8
    /\ loc.l.decoded_bytes
         = IF pos <= PreambleBits THEN <<>>
           ELSE SubSeq(descriptor, 1, (pos - PreambleBits) \div 8)
    /\ ~loc.l.broke

\* The whole burst received, its body decoded: the one whose characters W
\* and A put 0xAB in the register inside a byte.
BodyDecodedAfterPreamble ==
    /\ descriptor = Misaligned
    /\ pos = Len(BurstTones[descriptor])
    /\ loc.l.sync_locked
    /\ loc.l.decoded_bytes = Misaligned

-----------------------------------------------------------------------------
(***************************************************************************)
(* python_decoder.py: PythonSAMEDecoder.decode_bytes called in several     *)
(* threads of one process, each on a decoder instance of its own.  The     *)
(* threads share what the process owns: its umask and its file system.     *)
(* A step is one call into the os or tempfile module.                      *)
(***************************************************************************)
NumThreads == 3       \* threads that call decode_bytes, once each
SecureUmask == 63     \* 0o077

Threads == 1..NumThreads

\* The umask of the process before the calls: 0o022 or 0o002.
ProcessUmasks == {18, 2}

\* A thread that has not called decode_bytes yet.
NotCalled == [pc |-> "start", old_umask |-> -1, temp_path |-> 0]

\* What a call of decode_bytes leaves alone.
OutsideThreads ==
    <<requests, l2vars, encvars, bldvars, prsvars, decvars, demvars>>

InitThreads ==
    /\ threads = [t \in Threads |-> NotCalled]
    /\ \E u \in ProcessUmasks :
          process = [umask |-> u, before |-> u, files |-> {}]
    /\ requests = <<>>
    /\ L2Idle /\ EncIdle /\ BldIdle /\ PrsIdle
    /\ decCall = NoDecCall /\ decResult = NoDecResult
    /\ DemIdle

\* Line 757: old_umask = os.umask(0o077).  os.umask sets the umask of the
\* process and returns the one it had.
SetUmask(t) ==
    /\ threads[t].pc = "start"
    /\ threads' = [threads EXCEPT ![t].pc = "masked",
                                  ![t].old_umask = process.umask]
    /\ process' = [process EXCEPT !.umask = SecureUmask]
    /\ UNCHANGED OutsideThreads

\* Lines 759-761: the temp file is created under a name no other file has,
\* and written.
WriteTemp(t) ==
    /\ threads[t].pc = "masked"
    /\ threads' = [threads EXCEPT ![t].pc = "written", ![t].temp_path = t]
    /\ process' = [process EXCEPT !.files = @ \cup {t}]
    /\ UNCHANGED OutsideThreads

\* Lines 759-761 raising (no space left, no temp directory): no file.
WriteFails(t) ==
    /\ threads[t].pc = "masked"
    /\ threads' = [threads EXCEPT ![t].pc = "unwritten"]
    /\ UNCHANGED process
    /\ UNCHANGED OutsideThreads

\* Lines 762-763: finally, os.umask(old_umask); the exception of the try
\* block, if any, goes on to the caller.
RestoreUmask(t) ==
    /\ threads[t].pc \in {"written", "unwritten"}
    /\ threads' = [threads EXCEPT
                     ![t].pc = IF @ = "written" THEN "restored" ELSE "raised"]
    /\ process' = [process EXCEPT !.umask = threads[t].old_umask]
    /\ UNCHANGED OutsideThreads

\* Line 766: decode_file(temp_path), which returns a dict whatever happens.
DecodeTemp(t) ==
    /\ threads[t].pc = "restored"
    /\ threads' = [threads EXCEPT ![t].pc = "decoded"]
    /\ UNCHANGED process
    /\ UNCHANGED OutsideThreads

\* Lines 767-770: finally, the temp file is unlinked, and the dict returned.
UnlinkTemp(t) ==
    /\ threads[t].pc = "decoded"
    /\ threads' = [threads EXCEPT ![t].pc = "returned"]
    /\ process' = [process EXCEPT !.files = @ \ {threads[t].temp_path}]
    /\ UNCHANGED OutsideThreads

NextThreads ==
    \E t \in Threads :
        \/ SetUmask(t)
        \/ WriteTemp(t)
        \/ WriteFails(t)
        \/ RestoreUmask(t)
        \/ DecodeTemp(t)
        \/ UnlinkTemp(t)

SpecThreads == InitThreads /\ [][NextThreads]_vars

\* Every call of decode_bytes has returned or raised.
CallsCompleted == \A t \in Threads : threads[t].pc \in {"returned", "raised"}

\* C38: once the calls of decode_bytes made in the threads have completed,
\* in whatever order their steps were taken, the umask of the process is the
\* one it had before the calls and no temp file of theirs is left.
UmaskAndTempFilesRestored ==
    CallsCompleted
        => /\ process.umask = process.before
           /\ process.files = {}

-----------------------------------------------------------------------------
(***************************************************************************)
(* api.py: the handler decode_message of POST /api/decode, for each of the *)
(* requests the process is serving.  An HTTPException that leaves the      *)
(* handler is answered with its status_code.                               *)
(***************************************************************************)
NumRequests == 2      \* requests being served

Requests == 1..NumRequests

\* The upload of a request: its file name ends in .wav or not, its content
\* type, and how many bytes it has.
Uploads ==
    [ wav_name     : BOOLEAN,
      content_type : {"audio/wav", "text/plain", "none"},
      size         : {12, MAX_FILE_SIZE, MAX_FILE_SIZE + 1, 2 * MAX_FILE_SIZE} ]

\* What the call of decode_bytes in its thread does: it returns a result
\* with or without messages, it raises, or it is not over after 60 seconds.
DecodeOutcomes ==
    {"messages", "no message", "ValueError", "FileNotFoundError",
     "RuntimeError", "timeout"}

\* A request that has not reached the handler, and one that has.
NoRequest == [pc |-> "none"]
Arrived(upload) ==
    [pc |-> "arrived", upload |-> upload, raised |-> 0, status |-> 0]

\* Lines 515-524: the status of the HTTPException the except clauses of the
\* handler raise for an exception of class exc that leaves its try block.
\* HTTPException is a subclass of Exception and of neither other class.
ExceptClauses(exc) ==
    IF exc = "ValueError" THEN 400
    ELSE IF exc = "FileNotFoundError" THEN 503
    ELSE 500

\* The request answered after raise HTTPException(status_code) inside the
\* try block of the handler: the exception goes to the except clauses.
RaisedInTry(req, status_code) ==
    [req EXCEPT !.pc = "answered",
                !.raised = status_code,
                !.status = ExceptClauses("HTTPException")]

InitApi ==
    /\ requests = [r \in Requests |-> NoRequest]
    /\ threads = <<>>
    /\ process = NoProcess
    /\ L2Idle /\ EncIdle /\ BldIdle /\ PrsIdle
    /\ decCall = NoDecCall /\ decResult = NoDecResult
    /\ DemIdle

\* What the handler leaves alone.
OutsideApi ==
    <<threads, process, l2vars, encvars, bldvars, prsvars, decvars, demvars>>

\* A request arrives with its upload.
Arrive(r) ==
    /\ requests[r].pc = "none"
    /\ \E upload \in Uploads : requests' = [requests EXCEPT ![r] = Arrived(upload)]
    /\ UNCHANGED OutsideApi

\* Lines 458-464: the file name and the content type are checked, before
\* the try block.
ValidateUpload(r) ==
    /\ requests[r].pc = "arrived"
    /\ requests' =
         [requests EXCEPT ![r] =
            IF \/ ~@.upload.wav_name
               \/ @.upload.content_type \notin {"none", "audio/wav"}
            THEN [@ EXCEPT !.pc = "answered", !.raised = 400, !.status = 400]
            ELSE [@ EXCEPT !.pc = "validated"]]
    /\ UNCHANGED OutsideApi

\* Lines 466-472: at most MAX_SIZE + 1 bytes are read, and more than
\* MAX_SIZE of them raise HTTPException(413).
ReadUpload(r) ==
    /\ requests[r].pc = "validated"
    /\ requests' =
         [requests EXCEPT ![r] =
            IF Min(@.upload.size, MAX_FILE_SIZE + 1) > MAX_FILE_SIZE
            THEN RaisedInTry(@, 413)
            ELSE [@ EXCEPT !.pc = "read"]]
    /\ UNCHANGED OutsideApi

\* Lines 474-513: decode_bytes is awaited in a thread for 60 seconds at
\* most; a timeout raises HTTPException(408), a result is answered with
\* status 200, and an exception of decode_bytes goes to the except clauses.
AwaitDecode(r) ==
    /\ requests[r].pc = "read"
    /\ \E outcome \in DecodeOutcomes :
         requests' =
           [requests EXCEPT ![r] =
              IF outcome = "timeout" THEN RaisedInTry(@, 408)
              ELSE IF outcome \in {"messages", "no message"}
              THEN [@ EXCEPT !.pc = "answered", !.status = 200]
              ELSE [@ EXCEPT !.pc = "answered",
                             !.status = ExceptClauses(outcome)]]
    /\ UNCHANGED OutsideApi

\* The answer has been sent: the request is over.
Answer(r) ==
    /\ requests[r].pc = "answered"
    /\ requests' = [requests EXCEPT ![r] = NoRequest]
    /\ UNCHANGED OutsideApi

NextApi ==
    \E r \in Requests :
        \/ Arrive(r)
        \/ ValidateUpload(r)
        \/ ReadUpload(r)
        \/ AwaitDecode(r)
        \/ Answer(r)

SpecApi == InitApi /\ [][NextApi]_vars

\* C39: the status of an HTTPException raised in the handler is the status
\* the client is answered with: 413 for an upload of more than 10 MiB, 408
\* for a decode that is not over after 60 seconds.
RaisedStatusIsAnswered ==
    \A r \in Requests :
        (requests[r].pc = "answered" /\ requests[r].raised # 0)
            => requests[r].status = requests[r].raised

-----------------------------------------------------------------------------
(***************************************************************************)
(* python_decoder.py: PythonSAMEDecoder.extract_messages on the bytes the  *)
(* demodulator makes of a transmission: the header once for each burst     *)
(* decoded, then NNNN once for each EOM burst decoded.                     *)
(***************************************************************************)
MaxReps == 3      \* header bursts decoded
MaxEoms == 3      \* EOM bursts decoded

\* The decoded bytes of reps bursts of the header d and eoms bursts of NNNN.
ByteStream(d, reps, eoms) ==
    Concat([k \in 1..reps |-> d]) \o Concat([k \in 1..eoms |-> NNNN])

InitExtract ==
    /\ decCall = NoDecCall /\ decResult = NoDecResult
    /\ ApiIdle /\ DemIdle /\ L2Idle /\ EncIdle /\ BldIdle /\ PrsIdle

\* extract_messages(byte_stream), as decode_stream calls it: one call.
Extract ==
    \E d \in Descriptors, reps \in 1..MaxReps, eoms \in 0..MaxEoms :
        /\ decCall = NoDecCall
        /\ decCall' = [class |-> "PythonSAMEDecoder",
                       method |-> "extract_messages",
                       header |-> d, reps |-> reps, eoms |-> eoms]
        /\ decResult' = DecReturned(extract_messages(ByteStream(d, reps, eoms)))
        /\ UNCHANGED <<apivars, demvars, l2vars, encvars, bldvars, prsvars>>

NextExtract == Extract

SpecExtract == InitExtract /\ [][NextExtract]_vars

\* C40: for a byte stream that holds a header several times (and NNNN or
\* not), extract_messages returns one message, and its last_message is the
\* body of the first header up to its final dash (with or without the dash
\* that follows ZCZC), whatever characters of [A-Z0-9/- ] the station
\* identifier is made of.
FirstHeaderExtracted ==
    ( /\ decResult.status = "returned"
      /\ decCall.method = "extract_messages"
      /\ decCall.reps >= 2 )
        => /\ Len(decResult.value) = 1
           /\ decResult.value[1].last_message
                \in {Body(decCall.header), <<DASH>> \o Body(decCall.header)}

=============================================================================
